---- MODULE Spec2Model ----
(***************************************************************************)
(* State-machine model of the telegram-checklist server (server.js), of    *)
(* its archive-on-delete variant, and of the socket events they send to    *)
(* the connected sessions.                                                  *)
(*                                                                         *)
(* Strings that the code inspects character by character (checklist names, *)
(* bank names) are sequences of one-character strings.  Glyphs are named   *)
(* by their Unicode names.  Timestamps (new Date().toISOString()) are the  *)
(* readings of a logical clock that advances with every request.           *)
(***************************************************************************)
EXTENDS Integers, Sequences, FiniteSets, TLC

\* ------------------------------------------------------------------ bounds
\* Requests handled in one behaviour of Spec, SpecTemplate and SpecCycle.
MaxClock == 3
MaxTemplateClock == 4
MaxCycleClock == 6
MaxRaceClock == 4
MaxDeleteClock == 4
MaxAuthClock == 4
MaxAdminClock == 4
MaxBroadcastClock == 3
MaxInitClock == 4
MaxTwinClock == 4
MaxSyncClock == 4
MaxSyncRaceClock == 6
MaxInitRaceClock == 5
MaxSaveClock == 4
\* Checklist rows ever inserted in one behaviour.
MaxChecklists == 2
\* Entries of the template registry.
MaxTemplate == 3
\* Item requests waiting between their select and their update.
MaxPending == 2

\* ------------------------------------------------------- program constants
\* The client's limit on a checklist name.
MaxNameLen == 50

Rep(c, n) == [i \in 1..n |-> c]

statusCycle == <<"NOT_STARTED", "IN_PROGRESS", "APPROVED", "DECLINED">>

\* The server that removes the row on delete ("hard", server.js) and the
\* variant that sets is_archived ("soft").
Servers == {"hard", "soft"}

statusEmojiHard ==
  [NOT_STARTED |-> "white_large_square", IN_PROGRESS |-> "zzz",
   APPROVED |-> "white_check_mark", DECLINED |-> "cross_mark"]

statusEmojiSoft ==
  [NOT_STARTED |-> "disguised_face", IN_PROGRESS |-> "zzz",
   APPROVED |-> "heavy_check_mark", DECLINED |-> "cross_mark"]

statusEmojiOf(srv) == IF srv = "hard" THEN statusEmojiHard ELSE statusEmojiSoft

Amazon == <<"A", "m", "a", "z", "o", "n">>
Wamo == <<"W", "a", "m", "o">>

\* The head of the 16-entry default registry of each server.
BankTemplateHard ==
  << [id |-> 1, name |-> Amazon, status |-> "NOT_STARTED", emoji |-> "white_large_square"],
     [id |-> 2, name |-> Wamo, status |-> "NOT_STARTED", emoji |-> "white_large_square"] >>

BankTemplateSoft ==
  << [id |-> 1, name |-> Amazon, status |-> "NOT_STARTED", emoji |-> "disguised_face"],
     [id |-> 2, name |-> Wamo, status |-> "DECLINED", emoji |-> "cross_mark"] >>

DefaultTemplate(srv) == IF srv = "hard" THEN BankTemplateHard ELSE BankTemplateSoft

EmptyDetails == [login |-> "", password |-> "", phone |-> "", email |-> ""]

DefaultGroup == "default-group"

\* ------------------------------------------------------------ pure helpers
Range(f) == {f[i] : i \in DOMAIN f}

\* Array.prototype.indexOf, 0-based, -1 when absent.
IndexOf(seq, x) ==
  IF \E i \in 1..Len(seq) : seq[i] = x
  THEN (CHOOSE i \in 1..Len(seq) : seq[i] = x /\ \A j \in 1..(i - 1) : seq[j] # x) - 1
  ELSE 0 - 1

\* A cycle with no wrap: statusCycle[statusCycle.indexOf(s) + 1], which is
\* undefined after the last status.
NextStatusNoWrap(s) ==
  IF IndexOf(statusCycle, s) + 2 <= Len(statusCycle)
  THEN statusCycle[IndexOf(statusCycle, s) + 2]
  ELSE "undefined"

\* A cycle that is one status short: % (statusCycle.length - 1).
NextStatusShort(s) == statusCycle[((IndexOf(statusCycle, s) + 1) % (Len(statusCycle) - 1)) + 1]

\* statusCycle[(statusCycle.indexOf(s) + 1) % statusCycle.length]
NextStatus(s) == statusCycle[((IndexOf(statusCycle, s) + 1) % Len(statusCycle)) + 1]

UpperToLower ==
  [A |-> "a", B |-> "b", C |-> "c", D |-> "d", E |-> "e", F |-> "f", G |-> "g",
   H |-> "h", I |-> "i", J |-> "j", K |-> "k", L |-> "l", M |-> "m", N |-> "n",
   O |-> "o", P |-> "p", Q |-> "q", R |-> "r", S |-> "s", T |-> "t", U |-> "u",
   V |-> "v", W |-> "w", X |-> "x", Y |-> "y", Z |-> "z"]

\* String.prototype.toLowerCase
ToLowerCase(str) ==
  [i \in 1..Len(str) |-> IF str[i] \in DOMAIN UpperToLower THEN UpperToLower[str[i]] ELSE str[i]]

\* String.prototype.trim (blanks only)
RECURSIVE TrimLeft(_)
TrimLeft(str) == IF str # <<>> /\ Head(str) = " " THEN TrimLeft(Tail(str)) ELSE str
RECURSIVE TrimRight(_)
TrimRight(str) ==
  IF str # <<>> /\ str[Len(str)] = " " THEN TrimRight(SubSeq(str, 1, Len(str) - 1)) ELSE str
Trim(str) == TrimRight(TrimLeft(str))

NaN == 0 - 1
\* parseInt of the item id a client sends (the clients send it as a string)
ParseInt(str) ==
  CASE str = "1" -> 1 [] str = "2" -> 2 [] str = "3" -> 3 [] str = "4" -> 4
    [] OTHER -> NaN

\* String(id) of an item id
IdString(n) ==
  CASE n = 1 -> "1" [] n = 2 -> "2" [] n = 3 -> "3" [] n = 4 -> "4" [] OTHER -> "?"

\* { ...a, ...b } of two objects
Spread(a, b) == [k \in DOMAIN a \cup DOMAIN b |-> IF k \in DOMAIN b THEN b[k] ELSE a[k]]

\* items.find(i => i.id === id): the index of the first such item, 0 when none
FindItem(items, id) ==
  IF \E i \in 1..Len(items) : items[i].id = id
  THEN CHOOSE i \in 1..Len(items) : items[i].id = id /\ \A j \in 1..(i - 1) : items[j].id # id
  ELSE 0


\* ---------------------------------------------------------------- universe
Sessions == {"s1", "s2"}

\* What the client of a session puts in its requests: this.userId, this.groupId.
SessionUser == [s1 |-> "u1", s2 |-> "u2"]
SessionGroup == [s1 |-> DefaultGroup, s2 |-> "-100"]

\* ------------------------------------------------------------------- state
VARIABLES
  server,         \* which server runs: "hard" (server.js) or "soft" (archiving variant)
  now,            \* the clock read by new Date()
  store,          \* table checklists: id -> row (items held parsed)
  nextId,         \* the id the table gives to the next inserted row
  BANK_TEMPLATE,  \* the in-memory template registry
  settings,       \* table settings, key bank_template
  users,          \* table users: the rows that have a telegram_id, telegram_id -> row
  connected,      \* the sockets connected to io
  inbox,          \* per session, the events its socket has been sent, oldest first
  botOut,         \* the messages the bot has sent, oldest first
  pending,        \* the item requests whose select has answered, oldest first
  invited,        \* table users: the usernames of the rows that have no telegram_id yet
  auth,           \* per session, what /api/auth last answered its client
  syncJob,        \* the template sync that is between two of its awaits, if any
  last,           \* history: the request handled last and how it ended
  twin,           \* the table and the inboxes of the other server, sent the same requests
  journal         \* history: the mutations that completed, oldest first

storeVars == <<store, nextId>>
tmplVars == <<BANK_TEMPLATE, settings>>
netVars == <<connected, inbox>>
usersVars == <<users, invited, auth>>
vars == <<server, now, store, nextId, BANK_TEMPLATE, settings, users, invited, auth, connected,
          inbox, botOut, pending, syncJob, journal, last, twin>>

NoSetting == [present |-> FALSE, value |-> <<>>]

NoJob == [running |-> FALSE, by |-> "", rows |-> <<>>, todo |-> <<>>, seen |-> 0]

\* The user names of the rows the users table starts with.
Al == <<"A", "l">>
Bob == <<"b", "o", "b">>

\* A client that has not called /api/auth.
NotAsked == [answer |-> "none", userId |-> ""]

NoRequest == [by |-> "", op |-> "", cl |-> 0, itemId |-> "", outcome |-> ""]

Init ==
  /\ server \in Servers
  /\ now = 1
  /\ store = [i \in {} |-> i]
  /\ nextId = 1
  /\ BANK_TEMPLATE = DefaultTemplate(server)
  /\ settings = NoSetting
  /\ users = [u1 |-> [is_admin |-> TRUE, username |-> Al],
              u2 |-> [is_admin |-> FALSE, username |-> Bob]]
  /\ invited = {}
  /\ auth = [s \in Sessions |-> NotAsked]
  /\ connected = {}
  /\ inbox = [s \in Sessions |-> <<>>]
  /\ botOut = <<>>
  /\ pending = <<>>
  /\ syncJob = NoJob
  /\ journal = <<>>
  /\ last = NoRequest
  /\ twin = [store |-> store, inbox |-> inbox]

statusEmoji == statusEmojiOf(server)

\* An emit that reaches every socket but the first connected one.
IoEmitSkipsOne(box, ev) ==
  [s \in Sessions |->
     IF s \in connected /\ s # (CHOOSE x \in connected : TRUE) THEN Append(box[s], ev) ELSE box[s]]

\* An emit to the room of the checklist's group only: io.to(groupId).emit(ev).
IoEmitToGroup(box, ev) ==
  LET g == IF ev.type = "checklistCreated" THEN ev.checklist.group_id
           ELSE IF "checklistId" \in DOMAIN ev /\ ev.checklistId \in DOMAIN store
                THEN store[ev.checklistId].group_id
                ELSE ""
  IN [s \in Sessions |->
        IF s \in connected /\ (g = "" \/ SessionGroup[s] = g) THEN Append(box[s], ev) ELSE box[s]]

\* io.emit(ev): every connected socket is sent ev
IoEmit(box, ev) == [s \in Sessions |-> IF s \in connected THEN Append(box[s], ev) ELSE box[s]]

\* socket.emit(ev): the socket of session s is sent ev
SocketEmit(box, s, ev) == [box EXCEPT ![s] = Append(@, ev)]

\* What a completed mutation leaves in the history: who asked (by, "bot" for a
\* command), the request, the table and the inboxes before and after it, the
\* items array it had read and the length of the history when it read it.
Logged(by, op, cl, it, arg, post, boxPost) ==
  Append(journal, [by |-> by, op |-> op, cl |-> cl, it |-> it, itemId |-> "", arg |-> arg,
                   at |-> now, pre |-> store, post |-> post, tmpl |-> BANK_TEMPLATE,
                   conn |-> connected, boxPre |-> inbox, boxPost |-> boxPost,
                   read |-> <<>>, seen |-> Len(journal)])

LoggedRequest(req, it, post, boxPost) ==
  Append(journal, [by |-> req.by, op |-> req.op, cl |-> req.cl, it |-> it,
                   itemId |-> req.itemId, arg |-> req.arg,
                   at |-> now, pre |-> store, post |-> post, tmpl |-> BANK_TEMPLATE,
                   conn |-> connected, boxPre |-> inbox, boxPost |-> boxPost,
                   read |-> req.items, seen |-> req.seen])

\* Every request is handled at a later reading of the clock.
Tick == now' = now + 1

\* The request that has just been handled: who sent it (a session, or the user
\* of a bot command), what it named (a checklist and an item, or, for init, the
\* group id in the place of the item id) and how it ended.
Handled(by, op, cl, itemId, outcome) ==
  last' = [by |-> by, op |-> op, cl |-> cl, itemId |-> itemId, outcome |-> outcome]

\* --------------------------------------------------------------- sessions
Connect(s) ==
  /\ s \notin connected
  /\ connected' = connected \cup {s}
  /\ UNCHANGED <<server, syncJob, now, storeVars, tmplVars, usersVars, inbox, botOut, pending, journal, last>>

Disconnect(s) ==
  /\ s \in connected
  /\ connected' = connected \ {s}
  /\ UNCHANGED <<server, syncJob, now, storeVars, tmplVars, usersVars, inbox, botOut, pending, journal, last>>

\* .order('created_at', { ascending: false }) of a set of rows, as a sequence
RECURSIVE OrderDesc(_)
OrderDesc(rows) ==
  IF rows = {} THEN <<>>
  ELSE LET r == CHOOSE x \in rows :
                  \A y \in rows : x.created_at > y.created_at
                                  \/ (x.created_at = y.created_at /\ x.id >= y.id)
       IN <<r>> \o OrderDesc(rows \ {r})

\* A select that forgets .eq('is_archived', false).
ListActiveAndArchived(st, g) == OrderDesc({st[i] : i \in {j \in DOMAIN st : st[j].group_id = g}})

\* select * from checklists where group_id = g and is_archived = false
ListActive(st, g) ==
  OrderDesc({st[i] : i \in {j \in DOMAIN st : st[j].group_id = g /\ ~st[j].is_archived}})

\* A handler that takes data.groupId as it is sent.
GroupOrAsSent(groupId) == groupId

\* data.groupId || 'default-group'
GroupOr(groupId) == IF groupId = "" THEN DefaultGroup ELSE groupId

\* socket.on('init')
OnInit(s, groupId, dbError) ==
  /\ s \in connected
  /\ Tick
  /\ inbox' = SocketEmit(inbox, s,
       [type |-> "init",
        checklists |-> IF dbError THEN <<>> ELSE ListActive(store, GroupOr(groupId))])
  /\ Handled(s, "init", 0, groupId, IF dbError THEN "select-error" ELSE "ok")
  /\ UNCHANGED <<server, syncJob, storeVars, tmplVars, usersVars, connected, botOut, pending, journal>>


\* ---------------------------------------------------------- item mutations
\* A copy of the registry in which every item starts the cycle anew, whatever
\* the status of its entry.
NewItemsNotStarted(template, userId, t) ==
  [i \in 1..Len(template) |->
     [id |-> template[i].id, name |-> template[i].name, status |-> "NOT_STARTED",
      emoji |-> template[i].emoji, details |-> EmptyDetails,
      lastModified |-> t, modifiedBy |-> userId]]

\* BANK_TEMPLATE.map(item => ({ ...item, details: {...}, lastModified, modifiedBy }))
NewItems(template, userId, t) ==
  [i \in 1..Len(template) |->
     [id |-> template[i].id, name |-> template[i].name, status |-> template[i].status,
      emoji |-> template[i].emoji, details |-> EmptyDetails,
      lastModified |-> t, modifiedBy |-> userId]]

\* An advance that forgets item.emoji = statusEmoji[item.status].
AdvanceItemKeepEmoji(item, userId, t) ==
  [item EXCEPT !.status = NextStatus(item.status), !.lastModified = t, !.modifiedBy = userId]

\* updateItemStatus, on the item found: the next status of the cycle and its glyph
AdvanceItem(item, userId, t) ==
  [item EXCEPT !.status = NextStatus(item.status),
               !.emoji = statusEmoji[NextStatus(item.status)],
               !.lastModified = t,
               !.modifiedBy = userId]

\* A details update that replaces the record: item.details = details.
MergeDetailsReplaces(item, details, userId, t) ==
  [item EXCEPT !.details = details, !.lastModified = t, !.modifiedBy = userId]

\* A details update that spreads the old record over the new one:
\* item.details = { ...details, ...item.details }.
MergeDetailsOldWins(item, details, userId, t) ==
  [item EXCEPT !.details = Spread(details, item.details), !.lastModified = t,
               !.modifiedBy = userId]

\* updateItemDetails, on the item found: item.details = { ...item.details, ...details }
MergeDetails(item, details, userId, t) ==
  [item EXCEPT !.details = Spread(item.details, details),
               !.lastModified = t,
               !.modifiedBy = userId]

\* An override that starts the item's cycle anew: it sets the status back along
\* with the glyph.
SetEmojiResetsStatus(item, emoji, userId, t) ==
  [item EXCEPT !.emoji = emoji, !.status = "NOT_STARTED", !.lastModified = t,
               !.modifiedBy = userId]

\* updateItemEmoji, on the item found: item.emoji = emoji
SetEmoji(item, emoji, userId, t) ==
  [item EXCEPT !.emoji = emoji, !.lastModified = t, !.modifiedBy = userId]

\* An update that is an upsert: it inserts the row when the id matches none, and
\* writes is_archived: false along with the items.
UpdateItemsUpsert(st, checklistId, items) ==
  [i \in DOMAIN st \cup {checklistId} |->
     IF i # checklistId THEN st[i]
     ELSE IF i \in DOMAIN st THEN [st[i] EXCEPT !.items = items, !.is_archived = FALSE]
     ELSE [id |-> i, name |-> <<>>, created_by |-> "", group_id |-> DefaultGroup,
           items |-> items, is_archived |-> FALSE, created_at |-> 0]]

\* .update({ items }).eq('id', checklistId)
UpdateItems(st, checklistId, items) ==
  [i \in DOMAIN st |-> IF i = checklistId THEN [st[i] EXCEPT !.items = items] ELSE st[i]]

\* .insert({...}).select().single()
InsertRow(st, row) == [i \in DOMAIN st \cup {row.id} |-> IF i = row.id THEN row ELSE st[i]]

\* server.js: .delete().eq('id', checklistId)
DeleteRow(st, checklistId) == [i \in DOMAIN st \ {checklistId} |-> st[i]]

\* the variant: .update({ is_archived: true }).eq('id', checklistId)
ArchiveRow(st, checklistId) ==
  [i \in DOMAIN st |-> IF i = checklistId THEN [st[i] EXCEPT !.is_archived = TRUE] ELSE st[i]]

\* --------------------------------------------------------- socket handlers
\* socket.on('createChecklist'): the server inserts whatever name it is sent
createChecklist(s, name, userId, groupId, dbError) ==
  /\ s \in connected
  /\ Tick
  /\ Handled(s, "create", IF dbError THEN 0 ELSE nextId, "", IF dbError THEN "insert-error" ELSE "ok")
  /\ IF dbError
     THEN /\ inbox' = SocketEmit(inbox, s, [type |-> "error", message |-> "insert failed"])
          /\ UNCHANGED <<storeVars, journal>>
     ELSE /\ nextId <= MaxChecklists
          /\ LET row == [id |-> nextId, name |-> name, created_by |-> userId,
                         group_id |-> GroupOr(groupId),
                         items |-> NewItems(BANK_TEMPLATE, userId, now),
                         is_archived |-> FALSE, created_at |-> now]
             IN /\ store' = InsertRow(store, row)
                /\ nextId' = nextId + 1
                /\ inbox' = IoEmit(inbox, [type |-> "checklistCreated", checklist |-> row])
                /\ journal' = Logged(s, "create", row.id, 0, name, store', inbox')
  /\ UNCHANGED <<server, syncJob, tmplVars, usersVars, connected, botOut, pending>>

\* A request that ends at one of the handler's early returns, or in its catch
\* block, which only logs.
Dropped == UNCHANGED <<storeVars, inbox, journal>>

\* A request for one item once the select of its checklist has answered: what was
\* asked, the items array that was read, and how much had happened by then.
Request(s, op, checklistId, itemId, arg, userId) ==
  [by |-> s, op |-> op, cl |-> checklistId, itemId |-> itemId, arg |-> arg,
   userId |-> userId, items |-> store[checklistId].items, seen |-> Len(journal)]

\* The item a handler writes back.
Mutated(req, item, t) ==
  CASE req.op = "advance" -> AdvanceItem(item, req.userId, t)
    [] req.op = "details" -> MergeDetails(item, req.arg, req.userId, t)
    [] req.op = "emoji" -> SetEmoji(item, req.arg, req.userId, t)

\* The event a handler emits after its update.
EventOf(req, item) ==
  CASE req.op = "advance" ->
         [type |-> "itemUpdated", checklistId |-> req.cl, itemId |-> req.itemId,
          status |-> item.status, emoji |-> item.emoji,
          modifiedBy |-> req.userId, lastModified |-> item.lastModified]
    [] req.op = "details" ->
         [type |-> "detailsUpdated", checklistId |-> req.cl, itemId |-> req.itemId,
          details |-> item.details,
          modifiedBy |-> req.userId, lastModified |-> item.lastModified]
    [] req.op = "emoji" ->
         [type |-> "emojiUpdated", checklistId |-> req.cl, itemId |-> req.itemId,
          emoji |-> req.arg,
          modifiedBy |-> req.userId, lastModified |-> item.lastModified]

\* A handler whose update is applied to the items the row holds when it writes,
\* not to the array its select returned.
FinishRereads(req, dbError) ==
  LET items == IF req.cl \in DOMAIN store THEN store[req.cl].items ELSE req.items
      k == FindItem(items, ParseInt(req.itemId))
  IN IF k = 0 \/ dbError = "update"
     THEN /\ Dropped
          /\ Handled(req.by, req.op, req.cl, req.itemId,
                     IF k = 0 THEN "no-item" ELSE "update-error")
     ELSE LET item == Mutated(req, items[k], now)
          IN /\ store' = UpdateItems(store, req.cl, [items EXCEPT ![k] = item])
             /\ inbox' = IoEmit(inbox, EventOf(req, item))
             /\ journal' = LoggedRequest(req, items[k].id, store', inbox')
             /\ Handled(req.by, req.op, req.cl, req.itemId, "ok")
             /\ UNCHANGED nextId

\* A handler that emits its event before it looks at the update's error.
FinishEmitsFirst(req, dbError) ==
  LET k == FindItem(req.items, ParseInt(req.itemId))
  IN IF k = 0
     THEN /\ Dropped
          /\ Handled(req.by, req.op, req.cl, req.itemId, "no-item")
     ELSE LET item == Mutated(req, req.items[k], now)
          IN /\ store' = IF dbError = "update" THEN store
                         ELSE UpdateItems(store, req.cl, [req.items EXCEPT ![k] = item])
             /\ inbox' = IoEmit(inbox, EventOf(req, item))
             /\ journal' = IF dbError = "update" THEN journal
                           ELSE LoggedRequest(req, req.items[k].id, store', inbox')
             /\ Handled(req.by, req.op, req.cl, req.itemId,
                        IF dbError = "update" THEN "update-error" ELSE "ok")
             /\ UNCHANGED nextId

\* updateItemStatus, updateItemDetails and updateItemEmoji from the item lookup
\* on: the item is changed in the array that was read, the array is written
\* back, the event is emitted.
Finish(req, dbError) ==
  LET k == FindItem(req.items, ParseInt(req.itemId))
  IN IF k = 0 \/ dbError = "update"
     THEN /\ Dropped
          /\ Handled(req.by, req.op, req.cl, req.itemId,
                     IF k = 0 THEN "no-item" ELSE "update-error")
     ELSE LET item == Mutated(req, req.items[k], now)
          IN /\ store' = UpdateItems(store, req.cl, [req.items EXCEPT ![k] = item])
             /\ inbox' = IoEmit(inbox, EventOf(req, item))
             /\ journal' = LoggedRequest(req, req.items[k].id, store', inbox')
             /\ Handled(req.by, req.op, req.cl, req.itemId, "ok")
             /\ UNCHANGED nextId

\* socket.on('updateItemStatus'), with no other request handled meanwhile;
\* dbError: "none", "select" or "update"
updateItemStatus(s, checklistId, itemId, userId, dbError) ==
  /\ s \in connected
  /\ Tick
  /\ IF dbError = "select" \/ checklistId \notin DOMAIN store
     THEN /\ Dropped
          /\ Handled(s, "advance", checklistId, itemId,
                     IF dbError = "select" THEN "select-error" ELSE "no-checklist")
     ELSE Finish(Request(s, "advance", checklistId, itemId, 0, userId), dbError)
  /\ UNCHANGED <<server, syncJob, tmplVars, usersVars, connected, botOut, pending>>

\* socket.on('updateItemDetails'), with no other request handled meanwhile
updateItemDetails(s, checklistId, itemId, details, userId, dbError) ==
  /\ s \in connected
  /\ Tick
  /\ IF dbError = "select" \/ checklistId \notin DOMAIN store
     THEN /\ Dropped
          /\ Handled(s, "details", checklistId, itemId,
                     IF dbError = "select" THEN "select-error" ELSE "no-checklist")
     ELSE Finish(Request(s, "details", checklistId, itemId, details, userId), dbError)
  /\ UNCHANGED <<server, syncJob, tmplVars, usersVars, connected, botOut, pending>>

\* socket.on('updateItemEmoji'), with no other request handled meanwhile
updateItemEmoji(s, checklistId, itemId, emoji, userId, dbError) ==
  /\ s \in connected
  /\ Tick
  /\ IF dbError = "select" \/ checklistId \notin DOMAIN store
     THEN /\ Dropped
          /\ Handled(s, "emoji", checklistId, itemId,
                     IF dbError = "select" THEN "select-error" ELSE "no-checklist")
     ELSE Finish(Request(s, "emoji", checklistId, itemId, emoji, userId), dbError)
  /\ UNCHANGED <<server, syncJob, tmplVars, usersVars, connected, botOut, pending>>

\* The same three handlers up to their first await: the select has answered with
\* the checklist, and the handler goes on later.
selectChecklist(s, op, checklistId, itemId, arg, userId) ==
  /\ s \in connected
  /\ checklistId \in DOMAIN store
  /\ Len(pending) < MaxPending
  /\ pending' = Append(pending, Request(s, op, checklistId, itemId, arg, userId))
  /\ UNCHANGED <<server, syncJob, now, storeVars, tmplVars, usersVars, netVars, botOut, journal, last>>

\* The rest of a handler that is waiting: pending request n goes on.
updateChecklist(n, dbError) ==
  /\ n \in 1..Len(pending)
  /\ Tick
  /\ Finish(pending[n], dbError)
  /\ pending' = SubSeq(pending, 1, n - 1) \o SubSeq(pending, n + 1, Len(pending))
  /\ UNCHANGED <<server, syncJob, tmplVars, usersVars, connected, botOut>>

\* socket.on('deleteChecklist'): the row is removed (server.js) or archived (the
\* variant); either statement succeeds on an id that matches no row
deleteChecklist(s, checklistId, dbError) ==
  /\ s \in connected
  /\ Tick
  /\ Handled(s, "delete", checklistId, "", IF dbError THEN "delete-error" ELSE "ok")
  /\ IF dbError
     THEN Dropped
     ELSE /\ store' = IF server = "hard" THEN DeleteRow(store, checklistId)
                      ELSE ArchiveRow(store, checklistId)
          /\ inbox' = IoEmit(inbox, [type |-> "checklistDeleted", checklistId |-> checklistId])
          /\ journal' = Logged(s, "delete", checklistId, 0, 0, store', inbox')
          /\ UNCHANGED nextId
  /\ UNCHANGED <<server, syncJob, tmplVars, usersVars, connected, botOut, pending>>


\* ------------------------------------------------------- template registry
\* existingByName[key]: the forEach leaves, under a key, the last item whose
\* lower-cased name is that key; 0 when no item has it
ExistingByName(existingItems, key) ==
  LET hits == {i \in 1..Len(existingItems) : ToLowerCase(existingItems[i].name) = key}
  IN IF hits = {} THEN 0 ELSE CHOOSE i \in hits : \A j \in hits : j <= i

\* A sync that keeps, after the items of the template, the old items whose name
\* is in no entry of the template.
SyncItemsKeepsUnmatched(existingItems, template, t) ==
  [i \in 1..Len(template) |->
     LET k == ExistingByName(existingItems, ToLowerCase(template[i].name))
     IN IF k # 0
        THEN [id |-> template[i].id, name |-> template[i].name,
              status |-> existingItems[k].status, emoji |-> existingItems[k].emoji,
              details |-> existingItems[k].details,
              lastModified |-> existingItems[k].lastModified,
              modifiedBy |-> existingItems[k].modifiedBy]
        ELSE [id |-> template[i].id, name |-> template[i].name,
              status |-> template[i].status, emoji |-> template[i].emoji,
              details |-> EmptyDetails, lastModified |-> t, modifiedBy |-> "system"]]
  \o SelectSeq(existingItems,
               LAMBDA old : \A i \in 1..Len(template) :
                              ToLowerCase(template[i].name) # ToLowerCase(old.name))

\* syncBankTemplateToChecklists: the new items array of one checklist
SyncItems(existingItems, template, t) ==
  [i \in 1..Len(template) |->
     LET k == ExistingByName(existingItems, ToLowerCase(template[i].name))
     IN IF k # 0
        THEN [id |-> template[i].id, name |-> template[i].name,
              status |-> existingItems[k].status, emoji |-> existingItems[k].emoji,
              details |-> existingItems[k].details,
              lastModified |-> existingItems[k].lastModified,
              modifiedBy |-> existingItems[k].modifiedBy]
        ELSE [id |-> template[i].id, name |-> template[i].name,
              status |-> template[i].status, emoji |-> template[i].emoji,
              details |-> EmptyDetails, lastModified |-> t, modifiedBy |-> "system"]]

\* syncBankTemplateToChecklists: every row of the table gets its new items
SyncStore(st, template, t) ==
  [i \in DOMAIN st |-> [st[i] EXCEPT !.items = SyncItems(st[i].items, template, t)]]

\* A next id taken from the number of entries: BANK_TEMPLATE.length.
MaxIdByCount(template) == Len(template)

\* Math.max(...BANK_TEMPLATE.map(b => b.id), 0)
MaxId(template) ==
  IF template = <<>> THEN 0
  ELSE CHOOSE m \in {template[i].id : i \in 1..Len(template)} :
         \A i \in 1..Len(template) : template[i].id <= m

\* BANK_TEMPLATE.filter(b => b.id !== bankId)
RECURSIVE FilterOut(_, _)
FilterOut(template, bankId) ==
  IF template = <<>> THEN <<>>
  ELSE IF Head(template).id = bankId THEN FilterOut(Tail(template), bankId)
       ELSE <<Head(template)>> \o FilterOut(Tail(template), bankId)

\* A check that only looks for the sender's row, not at its flag.
NotAdminUnknownOnly(userId) == userId \notin DOMAIN users

\* const { data: userData } = ...eq('telegram_id', userId).single();
\* !userData || !userData.is_admin
NotAdmin(userId) == userId \notin DOMAIN users \/ ~users[userId].is_admin

\* saveBankTemplate, given what the upsert did: "ok" (written), "error" (the
\* client resolves with an error, which is not looked at) or "throw"
saveBankTemplate(template, dbResult) ==
  [saved |-> dbResult # "throw",
   settings |-> IF dbResult = "ok" THEN [present |-> TRUE, value |-> template] ELSE settings]

Denied(msg) ==
  /\ botOut' = Append(botOut, msg)
  /\ UNCHANGED <<tmplVars, storeVars, inbox, journal>>

\* An /addbank that propagates at once: it rebuilds the items of every checklist
\* from the registry it has just extended.
addbankSyncs(userId, bankName, dbResult) ==
  /\ server = "hard"
  /\ Tick
  /\ Handled(userId, "addbank", 0, "", IF NotAdmin(userId) THEN "denied" ELSE "ok")
  /\ IF NotAdmin(userId)
     THEN Denied("Admin only")
     ELSE /\ Len(BANK_TEMPLATE) < MaxTemplate
          /\ LET newBank == [id |-> MaxId(BANK_TEMPLATE) + 1, name |-> bankName,
                             status |-> "NOT_STARTED", emoji |-> "white_large_square"]
                 save == saveBankTemplate(Append(BANK_TEMPLATE, newBank), dbResult)
             IN /\ BANK_TEMPLATE' = Append(BANK_TEMPLATE, newBank)
                /\ settings' = save.settings
                /\ store' = SyncStore(store, Append(BANK_TEMPLATE, newBank), now)
                /\ botOut' = Append(botOut, IF save.saved THEN "Added" ELSE "Error saving")
                /\ journal' = Logged("bot", "addbank", 0, newBank.id, bankName, store', inbox)
                /\ UNCHANGED <<nextId, inbox>>
  /\ UNCHANGED <<server, syncJob, usersVars, connected, pending>>

\* bot.onText(/\/addbank (.+)/)
addbank(userId, bankName, dbResult) ==
  /\ server = "hard"
  /\ Tick
  /\ Handled(userId, "addbank", 0, "", IF NotAdmin(userId) THEN "denied" ELSE "ok")
  /\ IF NotAdmin(userId)
     THEN Denied("Admin only")
     ELSE /\ Len(BANK_TEMPLATE) < MaxTemplate
          /\ LET newBank == [id |-> MaxId(BANK_TEMPLATE) + 1, name |-> bankName,
                             status |-> "NOT_STARTED", emoji |-> "white_large_square"]
                 save == saveBankTemplate(Append(BANK_TEMPLATE, newBank), dbResult)
             IN /\ BANK_TEMPLATE' = Append(BANK_TEMPLATE, newBank)
                /\ settings' = save.settings
                /\ botOut' = Append(botOut, IF save.saved THEN "Added" ELSE "Error saving")
                /\ journal' = Logged("bot", "addbank", 0, newBank.id, bankName, store, inbox)
                /\ UNCHANGED <<storeVars, inbox>>
  /\ UNCHANGED <<server, syncJob, usersVars, connected, pending>>

\* bot.onText(/\/delbank (\d+)/)
delbank(userId, bankId, dbResult) ==
  /\ server = "hard"
  /\ Tick
  /\ Handled(userId, "delbank", 0, "",
             IF NotAdmin(userId) THEN "denied"
             ELSE IF \A i \in 1..Len(BANK_TEMPLATE) : BANK_TEMPLATE[i].id # bankId THEN "not-found" ELSE "ok")
  /\ IF NotAdmin(userId)
     THEN Denied("Admin only")
     ELSE IF \A i \in 1..Len(BANK_TEMPLATE) : BANK_TEMPLATE[i].id # bankId
     THEN Denied("Bank not found")
     ELSE LET save == saveBankTemplate(FilterOut(BANK_TEMPLATE, bankId), dbResult)
          IN /\ BANK_TEMPLATE' = FilterOut(BANK_TEMPLATE, bankId)
             /\ settings' = save.settings
             /\ botOut' = Append(botOut, IF save.saved THEN "Deleted" ELSE "Error saving")
             /\ journal' = Logged("bot", "delbank", 0, bankId, 0, store, inbox)
             /\ UNCHANGED <<storeVars, inbox>>
  /\ UNCHANGED <<server, syncJob, usersVars, connected, pending>>

\* bot.onText(/\/renamebank (\d+) (.+)/)
renamebank(userId, bankId, newName, dbResult) ==
  /\ server = "hard"
  /\ Tick
  /\ Handled(userId, "renamebank", 0, "",
             IF NotAdmin(userId) THEN "denied"
             ELSE IF \A i \in 1..Len(BANK_TEMPLATE) : BANK_TEMPLATE[i].id # bankId THEN "not-found" ELSE "ok")
  /\ IF NotAdmin(userId)
     THEN Denied("Admin only")
     ELSE IF \A i \in 1..Len(BANK_TEMPLATE) : BANK_TEMPLATE[i].id # bankId
     THEN Denied("Bank not found")
     ELSE LET k == FindItem(BANK_TEMPLATE, bankId)
              renamed == [BANK_TEMPLATE EXCEPT ![k].name = newName]
              save == saveBankTemplate(renamed, dbResult)
          IN /\ BANK_TEMPLATE' = renamed
             /\ settings' = save.settings
             /\ botOut' = Append(botOut, IF save.saved THEN "Renamed" ELSE "Error saving")
             /\ journal' = Logged("bot", "renamebank", 0, bankId, newName, store, inbox)
             /\ UNCHANGED <<storeVars, inbox>>
  /\ UNCHANGED <<server, syncJob, usersVars, connected, pending>>

\* bot.onText(/\/syncbanks/) with syncBankTemplateToChecklists; dbError: "none",
\* "select" (thrown) or "update" (each update resolves with an error, not looked at)
syncbanks(userId, dbError) ==
  /\ server = "hard"
  /\ Tick
  /\ Handled(userId, "syncbanks", 0, "",
             IF NotAdmin(userId) THEN "denied"
             ELSE IF dbError = "select" THEN "select-error" ELSE "ok")
  /\ IF NotAdmin(userId)
     THEN Denied("Admin only")
     ELSE IF dbError = "select"
     THEN /\ botOut' = botOut \o <<"Syncing...", "Error">>
          /\ UNCHANGED <<tmplVars, storeVars, inbox, journal>>
     ELSE /\ store' = IF dbError = "update" THEN store
                      ELSE SyncStore(store, BANK_TEMPLATE, now)
          /\ inbox' = IoEmit(inbox, [type |-> "templateUpdated", template |-> BANK_TEMPLATE])
          /\ botOut' = botOut \o <<"Syncing...", "Done">>
          /\ journal' = Logged("bot", IF dbError = "update" THEN "sync-unsaved" ELSE "sync",
                                0, 0, 0, store', inbox')
          /\ UNCHANGED <<tmplVars, nextId>>
  /\ UNCHANGED <<server, syncJob, usersVars, connected, pending>>


\* The ids of a set of rows, ascending, as the sequence the sync loops over.
RECURSIVE Ascending(_)
Ascending(ids) ==
  IF ids = {} THEN <<>>
  ELSE LET m == CHOOSE x \in ids : \A y \in ids : x <= y
       IN <<m>> \o Ascending(ids \ {m})

\* /syncbanks of an administrator up to the first await of
\* syncBankTemplateToChecklists: the select of all checklists has answered.
syncSelect(userId) ==
  /\ server = "hard"
  /\ ~NotAdmin(userId)
  /\ ~syncJob.running
  /\ syncJob' = [running |-> TRUE, by |-> userId, rows |-> store,
                 todo |-> Ascending(DOMAIN store), seen |-> Len(journal)]
  /\ botOut' = Append(botOut, "Syncing...")
  /\ UNCHANGED <<server, now, storeVars, tmplVars, usersVars, netVars, pending, journal, last>>

\* One turn of the loop of syncBankTemplateToChecklists: the items of the next
\* checklist that was read are rebuilt from the registry and written to its row.
syncUpdate ==
  /\ syncJob.running
  /\ syncJob.todo # <<>>
  /\ Tick
  /\ LET id == Head(syncJob.todo)
         newItems == SyncItems(syncJob.rows[id].items, BANK_TEMPLATE, now)
         req == [by |-> "bot", op |-> "sync-row", cl |-> id, itemId |-> "", arg |-> 0,
                 items |-> syncJob.rows[id].items, seen |-> syncJob.seen]
     IN /\ store' = UpdateItems(store, id, newItems)
        /\ journal' = LoggedRequest(req, 0, store', inbox)
        /\ Handled(syncJob.by, "sync-row", id, "", "ok")
  /\ syncJob' = [syncJob EXCEPT !.todo = Tail(@)]
  /\ UNCHANGED <<server, nextId, tmplVars, usersVars, netVars, botOut, pending>>

\* /syncbanks after the loop: the clients are told to refresh, the admin is
\* answered.
syncDone ==
  /\ syncJob.running
  /\ syncJob.todo = <<>>
  /\ Tick
  /\ inbox' = IoEmit(inbox, [type |-> "templateUpdated", template |-> BANK_TEMPLATE])
  /\ botOut' = Append(botOut, "Done")
  /\ Handled(syncJob.by, "syncbanks", 0, "", "ok")
  /\ syncJob' = NoJob
  /\ UNCHANGED <<server, storeVars, tmplVars, usersVars, connected, pending, journal>>

\* ------------------------------------------------------------- users table
\* username.ilike.<name>, for names without pattern characters
ILike(a, b) == ToLowerCase(a) = ToLowerCase(b)

\* The rows .or(`telegram_id.eq.${id},username.ilike.${username}`) selects: the
\* keys of the rows that have a telegram_id, and the names of those that have none
MatchedRows(id, username) == {k \in DOMAIN users : k = id \/ ILike(users[k].username, username)}
MatchedInvited(username) == {n \in invited : ILike(n, username)}

\* The users table without the rows of keys gone and with row at key id.
PutUser(gone, id, row) ==
  [k \in (DOMAIN users \ gone) \cup {id} |-> IF k = id THEN row ELSE users[k]]

\* app.post('/api/auth') for the client of session s, once the Telegram data has
\* been verified as user. server.js answers 403 unless .single() finds exactly
\* one row of the whitelist, and fills that row in; the variant upserts the user.
Auth(s, user) ==
  /\ Tick
  /\ IF server = "soft"
     THEN /\ users' = PutUser({}, user.id,
                        [is_admin |-> IF user.id \in DOMAIN users THEN users[user.id].is_admin
                                      ELSE FALSE,
                         username |-> user.username])
          /\ auth' = [auth EXCEPT ![s] = [answer |-> "ok", userId |-> user.id]]
          /\ Handled(s, "auth", 0, "", "ok")
          /\ UNCHANGED invited
     ELSE LET rows == MatchedRows(user.id, user.username)
              names == MatchedInvited(user.username)
          IN IF Cardinality(rows) + Cardinality(names) # 1
             THEN /\ auth' = [auth EXCEPT ![s] = [answer |-> "refused", userId |-> ""]]
                  /\ Handled(s, "auth", 0, "", "refused")
                  /\ UNCHANGED <<users, invited>>
             ELSE /\ users' = PutUser(rows, user.id,
                                [is_admin |-> \E k \in rows : users[k].is_admin,
                                 username |-> user.username])
                  /\ invited' = invited \ names
                  /\ auth' = [auth EXCEPT ![s] = [answer |-> "ok", userId |-> user.id]]
                  /\ Handled(s, "auth", 0, "", "ok")
  /\ UNCHANGED <<server, syncJob, storeVars, tmplVars, netVars, botOut, pending, journal>>

\* A command of the bot that ends at its admin check.
DeniedUsers(msg) ==
  /\ botOut' = Append(botOut, msg)
  /\ UNCHANGED <<users, invited>>

\* bot.onText(/\/admin (.+)/); dbError: the upsert resolves with an error, which
\* is not looked at
admin(userId, targetUserId, dbError) ==
  /\ Tick
  /\ Handled(userId, "admin", 0, "", IF NotAdmin(userId) THEN "denied" ELSE "ok")
  /\ IF NotAdmin(userId)
     THEN DeniedUsers("Access denied")
     ELSE /\ users' = IF dbError THEN users
                      ELSE PutUser({}, targetUserId,
                             [is_admin |-> TRUE,
                              username |-> IF targetUserId \in DOMAIN users
                                           THEN users[targetUserId].username ELSE <<>>])
          /\ botOut' = Append(botOut, "Now admin")
          /\ UNCHANGED invited
  /\ UNCHANGED <<server, syncJob, storeVars, tmplVars, auth, netVars, pending, journal>>

\* bot.onText(/\/unadmin (.+)/)
unadmin(userId, targetUserId, dbError) ==
  /\ Tick
  /\ Handled(userId, "unadmin", 0, "", IF NotAdmin(userId) THEN "denied" ELSE "ok")
  /\ IF NotAdmin(userId)
     THEN DeniedUsers("No rights")
     ELSE /\ users' = IF dbError \/ targetUserId \notin DOMAIN users THEN users
                      ELSE [users EXCEPT ![targetUserId].is_admin = FALSE]
          /\ botOut' = Append(botOut, "No longer admin")
          /\ UNCHANGED invited
  /\ UNCHANGED <<server, syncJob, storeVars, tmplVars, auth, netVars, pending, journal>>

\* bot.onText(/\/adduser @?(\w+)/): the name is lower-cased; .single() finds the
\* user only when exactly one row has the name
adduser(userId, targetUsername, dbError) ==
  /\ server = "hard"
  /\ Tick
  /\ LET name == ToLowerCase(targetUsername)
         exists == Cardinality({k \in DOMAIN users : ILike(users[k].username, name)})
                     + Cardinality(MatchedInvited(name)) = 1
     IN /\ Handled(userId, "adduser", 0, "",
                   IF NotAdmin(userId) THEN "denied" ELSE IF exists THEN "exists" ELSE "ok")
        /\ IF NotAdmin(userId)
           THEN DeniedUsers("Admin only")
           ELSE IF exists
           THEN /\ botOut' = Append(botOut, "Already exists")
                /\ UNCHANGED <<users, invited>>
           ELSE /\ invited' = IF dbError THEN invited ELSE invited \cup {name}
                /\ botOut' = Append(botOut, "Added to whitelist")
                /\ UNCHANGED users
  /\ UNCHANGED <<server, syncJob, storeVars, tmplVars, auth, netVars, pending, journal>>

\* bot.onText(/\/deluser @?(\w+)/)
deluser(userId, targetUsername, dbError) ==
  /\ server = "hard"
  /\ Tick
  /\ LET name == ToLowerCase(targetUsername)
         rows == IF dbError THEN {} ELSE {k \in DOMAIN users : ILike(users[k].username, name)}
         names == IF dbError THEN {} ELSE MatchedInvited(name)
     IN /\ Handled(userId, "deluser", 0, "",
                   IF NotAdmin(userId) THEN "denied"
                   ELSE IF rows = {} /\ names = {} THEN "not-found" ELSE "ok")
        /\ IF NotAdmin(userId)
           THEN DeniedUsers("Admin only")
           ELSE /\ users' = [k \in DOMAIN users \ rows |-> users[k]]
                /\ invited' = invited \ names
                /\ botOut' = Append(botOut, IF rows = {} /\ names = {} THEN "Not found"
                                            ELSE "Removed from whitelist")
  /\ UNCHANGED <<server, syncJob, storeVars, tmplVars, auth, netVars, pending, journal>>

\* ---------------------------------------------------------- the other server
\* The server that is not running: server.js when the variant runs, the variant
\* when server.js runs.
Other(srv) == IF srv = "hard" THEN "soft" ELSE "hard"

\* The item the other server's handler writes back: its advance takes the glyph
\* from its own statusEmoji.
TwinMutated(req, item, t) ==
  IF req.op = "advance"
  THEN [item EXCEPT !.status = NextStatus(item.status),
                    !.emoji = statusEmojiOf(Other(server))[NextStatus(item.status)],
                    !.lastModified = t,
                    !.modifiedBy = req.userId]
  ELSE Mutated(req, item, t)

\* createChecklist on the other server, for the row this server inserted: the
\* two tables are given the same content.
TwinCreate(row) ==
  [store |-> InsertRow(twin.store, row),
   inbox |-> IoEmit(twin.inbox, [type |-> "checklistCreated", checklist |-> row])]

\* updateItemStatus, updateItemDetails and updateItemEmoji on the other server
TwinItem(s, op, checklistId, itemId, arg, userId) ==
  IF checklistId \notin DOMAIN twin.store THEN twin
  ELSE LET items == twin.store[checklistId].items
           req == [by |-> s, op |-> op, cl |-> checklistId, itemId |-> itemId, arg |-> arg,
                   userId |-> userId]
           k == FindItem(items, ParseInt(itemId))
       IN IF k = 0 THEN twin
          ELSE LET item == TwinMutated(req, items[k], now)
               IN [store |-> UpdateItems(twin.store, checklistId, [items EXCEPT ![k] = item]),
                   inbox |-> IoEmit(twin.inbox, EventOf(req, item))]

\* deleteChecklist on the other server
TwinDelete(checklistId) ==
  [store |-> IF Other(server) = "hard" THEN DeleteRow(twin.store, checklistId)
             ELSE ArchiveRow(twin.store, checklistId),
   inbox |-> IoEmit(twin.inbox, [type |-> "checklistDeleted", checklistId |-> checklistId])]

\* init on the other server
TwinInit(s, groupId) ==
  [store |-> twin.store,
   inbox |-> SocketEmit(twin.inbox, s,
               [type |-> "init", checklists |-> ListActive(twin.store, GroupOr(groupId))])]

\* ------------------------------------------------------------------ inputs
Q1 == <<"Q", "1">>
Blank == <<" ">>
TooLong == Rep("a", MaxNameLen + 1)
Names == {<<>>, Blank, Q1, TooLong}

ChecklistIds == 1..MaxChecklists
ItemIds == {"1", "2", "3", "x"}
\* The item ids of Next: two that a fresh checklist has, one that nothing parses.
SocketItemIds == {"1", "2", "x"}
DetailsInputs == {[login |-> "a"], [password |-> "p"], [login |-> "b", phone |-> "7"]}
EmojiInputs == {"fire"}
wamo == <<"w", "a", "m", "o">>
Zen == <<"Z", "e", "n">>
BankNames == {wamo, Zen}
BankIds == 1..MaxTemplate
UserIds == {"u1", "u2"}
Eve == <<"E", "v", "e">>
\* The Telegram users whose clients call /api/auth: one of the whitelist, one not.
AuthUsers == {[id |-> "u2", username |-> Bob], [id |-> "u9", username |-> Eve]}

\* ---------------------------------------------------------- specifications
DbErrors == {"none", "select", "update"}

\* The socket interface: two sessions send requests, one request at a time.
Next ==
  /\ now <= MaxClock
  /\ \/ \E s \in Sessions : Connect(s)
     \/ \E s \in Sessions : Disconnect(s)
     \/ \E s \in Sessions, e \in BOOLEAN : OnInit(s, SessionGroup[s], e)
     \/ \E s \in Sessions, n \in Names, e \in BOOLEAN :
          createChecklist(s, n, SessionUser[s], SessionGroup[s], e)
     \/ \E s \in Sessions, c \in ChecklistIds, i \in SocketItemIds, e \in DbErrors :
          updateItemStatus(s, c, i, SessionUser[s], e)
     \/ \E s \in Sessions, c \in ChecklistIds, i \in SocketItemIds, d \in DetailsInputs, e \in DbErrors :
          updateItemDetails(s, c, i, d, SessionUser[s], e)
     \/ \E s \in Sessions, c \in ChecklistIds, i \in SocketItemIds, g \in EmojiInputs, e \in DbErrors :
          updateItemEmoji(s, c, i, g, SessionUser[s], e)
     \/ \E s \in Sessions, c \in ChecklistIds, e \in BOOLEAN : deleteChecklist(s, c, e)
  /\ UNCHANGED twin

Spec == Init /\ [][Next]_vars

\* The template registry: an administrator edits and propagates the template
\* while one session works on the checklists.
NextTemplate ==
  /\ now <= MaxTemplateClock
  /\ \/ Connect("s1")
     \/ createChecklist("s1", Q1, "u1", DefaultGroup, FALSE)
     \/ \E c \in ChecklistIds, i \in ItemIds : updateItemStatus("s1", c, i, "u2", "none")
     \/ \E c \in ChecklistIds, i \in ItemIds : updateItemDetails("s1", c, i, [login |-> "a"], "u2", "none")
     \/ \E c \in ChecklistIds, i \in ItemIds, g \in EmojiInputs :
          updateItemEmoji("s1", c, i, g, "u2", "none")
     \/ \E n \in BankNames : addbank("u1", n, "ok")
     \/ \E b \in BankIds : delbank("u1", b, "ok")
     \/ \E b \in BankIds : renamebank("u1", b, Zen, "ok")
     \/ \E e \in DbErrors : syncbanks("u1", e)
  /\ UNCHANGED twin

SpecTemplate == Init /\ [][NextTemplate]_vars

\* The status cycle: one session works on the items of its checklists.
NextCycle ==
  /\ now <= MaxCycleClock
  /\ \/ Connect("s1")
     \/ createChecklist("s1", Q1, "u1", DefaultGroup, FALSE)
     \/ \E i \in {"1", "2"} : updateItemStatus("s1", 1, i, "u1", "none")
     \/ updateItemDetails("s1", 1, "1", [login |-> "a"], "u1", "none")
     \/ updateItemEmoji("s1", 1, "1", "fire", "u1", "none")
  /\ UNCHANGED twin

SpecCycle == Init /\ [][NextCycle]_vars

\* Requests in flight: two sessions work on the items of one checklist, and a
\* request that has read the checklist goes on after any number of others.
NextRace ==
  /\ now <= MaxRaceClock
  /\ \/ \E s \in Sessions : Connect(s)
     \/ createChecklist("s1", Q1, "u1", DefaultGroup, FALSE)
     \/ \E i \in {"1", "2"} : selectChecklist("s1", "advance", 1, i, 0, "u1")
     \/ selectChecklist("s1", "emoji", 1, "1", "fire", "u1")
     \/ \E i \in {"1", "2"} : selectChecklist("s2", "details", 1, i, [login |-> "a"], "u2")
     \/ \E n \in 1..MaxPending, e \in {"none", "update"} : updateChecklist(n, e)
  /\ UNCHANGED twin

SpecRace == Init /\ [][NextRace]_vars

\* Deleting under load: one session creates, reads, updates and deletes
\* checklists and asks for its snapshot while a template sync runs.
NextDelete ==
  /\ now <= MaxDeleteClock
  /\ \/ Connect("s1")
     \/ createChecklist("s1", Q1, "u1", DefaultGroup, FALSE)
     \/ \E c \in ChecklistIds : selectChecklist("s1", "advance", c, "1", 0, "u1")
     \/ \E c \in ChecklistIds : selectChecklist("s1", "details", c, "1", [login |-> "a"], "u1")
     \/ \E c \in ChecklistIds : selectChecklist("s1", "emoji", c, "1", "fire", "u1")
     \/ \E n \in 1..MaxPending : updateChecklist(n, "none")
     \/ \E c \in ChecklistIds : deleteChecklist("s1", c, FALSE)
     \/ OnInit("s1", DefaultGroup, FALSE)
     \/ syncSelect("u1")
     \/ syncUpdate
     \/ syncDone
  /\ UNCHANGED twin

SpecDelete == Init /\ [][NextDelete]_vars

\* Access: the clients of two sessions call /api/auth, or do not, and send
\* requests on their sockets with a userId field of their choice.
NextAuth ==
  /\ now <= MaxAuthClock
  /\ \/ \E s \in Sessions : Connect(s)
     \/ \E s \in Sessions, u \in AuthUsers : Auth(s, u)
     \/ \E s \in Sessions : OnInit(s, DefaultGroup, FALSE)
     \/ \E s \in Sessions, u \in {"u2", "u9"} : createChecklist(s, Q1, u, DefaultGroup, FALSE)
     \/ \E s \in Sessions, u \in {"u2", "u9"} : updateItemStatus(s, 1, "1", u, "none")
     \/ \E s \in Sessions, u \in {"u2", "u9"} : updateItemDetails(s, 1, "1", [login |-> "a"], u, "none")
     \/ \E s \in Sessions, u \in {"u2", "u9"} : updateItemEmoji(s, 1, "1", "fire", u, "none")
     \/ \E s \in Sessions : deleteChecklist(s, 1, FALSE)
  /\ UNCHANGED twin

SpecAuth == Init /\ [][NextAuth]_vars

\* Administration: the two users of the table send the bot's template and user
\* commands while one session works on a checklist.
NextAdmin ==
  /\ now <= MaxAdminClock
  /\ \/ Connect("s1")
     \/ createChecklist("s1", Q1, "u2", DefaultGroup, FALSE)
     \/ \E u \in UserIds, t \in {"u1", "u2", "u9"} : admin(u, t, FALSE)
     \/ \E u \in UserIds, t \in {"u1", "u2"} : unadmin(u, t, FALSE)
     \/ \E u \in UserIds : adduser(u, Eve, FALSE)
     \/ \E u \in UserIds, n \in {Bob, Eve} : deluser(u, n, FALSE)
     \/ \E u \in UserIds : addbank(u, wamo, "ok")
     \/ \E u \in UserIds, b \in {1, 2} : delbank(u, b, "ok")
     \/ \E u \in UserIds : renamebank(u, 1, Zen, "ok")
     \/ \E u \in UserIds : syncbanks(u, "none")
  /\ UNCHANGED twin

SpecAdmin == Init /\ [][NextAdmin]_vars

\* Broadcasts: two sessions of different groups come and go and change the
\* checklists while an administrator propagates the template.
NextBroadcast ==
  /\ now <= MaxBroadcastClock
  /\ \/ \E s \in Sessions : Connect(s)
     \/ \E s \in Sessions : Disconnect(s)
     \/ \E s \in Sessions, e \in BOOLEAN :
          createChecklist(s, Q1, SessionUser[s], SessionGroup[s], e)
     \/ \E s \in Sessions, c \in ChecklistIds, e \in DbErrors :
          updateItemStatus(s, c, "1", SessionUser[s], e)
     \/ \E s \in Sessions, c \in ChecklistIds, e \in DbErrors :
          updateItemDetails(s, c, "1", [login |-> "a"], SessionUser[s], e)
     \/ \E s \in Sessions, c \in ChecklistIds, e \in DbErrors :
          updateItemEmoji(s, c, "2", "fire", SessionUser[s], e)
     \/ \E s \in Sessions, c \in ChecklistIds, e \in BOOLEAN : deleteChecklist(s, c, e)
     \/ \E e \in DbErrors : syncbanks("u1", e)
  /\ UNCHANGED twin

SpecBroadcast == Init /\ [][NextBroadcast]_vars

\* Snapshots: two sessions create and delete checklists in two groups and ask
\* for the snapshot of a group, or of none.
InitGroups == {"", DefaultGroup, "-100"}

NextInit ==
  /\ now <= MaxInitClock
  /\ \/ \E s \in Sessions : Connect(s)
     \/ \E s \in Sessions, g \in {"", "-100"} : createChecklist(s, Q1, SessionUser[s], g, FALSE)
     \/ \E c \in ChecklistIds : updateItemStatus("s1", c, "1", "u1", "none")
     \/ \E s \in Sessions, c \in ChecklistIds : deleteChecklist(s, c, FALSE)
     \/ \E s \in Sessions, g \in InitGroups, e \in BOOLEAN : OnInit(s, g, e)
  /\ UNCHANGED twin

SpecInit == Init /\ [][NextInit]_vars

\* Two servers side by side: the sessions' requests are handled by this server
\* and by the other one, whose table was given the same rows.
NextTwin ==
  /\ now <= MaxTwinClock
  /\ \/ \E s \in Sessions : Connect(s) /\ UNCHANGED twin
     \/ /\ createChecklist("s1", Q1, "u1", DefaultGroup, FALSE)
        /\ twin' = TwinCreate(store'[nextId])
     \/ \E s \in Sessions, c \in ChecklistIds :
          /\ updateItemStatus(s, c, "1", SessionUser[s], "none")
          /\ twin' = TwinItem(s, "advance", c, "1", 0, SessionUser[s])
     \/ \E s \in Sessions, c \in ChecklistIds :
          /\ updateItemDetails(s, c, "1", [login |-> "a"], SessionUser[s], "none")
          /\ twin' = TwinItem(s, "details", c, "1", [login |-> "a"], SessionUser[s])
     \/ \E s \in Sessions, c \in ChecklistIds :
          /\ updateItemEmoji(s, c, "1", "fire", SessionUser[s], "none")
          /\ twin' = TwinItem(s, "emoji", c, "1", "fire", SessionUser[s])
     \/ \E s \in Sessions, c \in ChecklistIds :
          /\ deleteChecklist(s, c, FALSE)
          /\ twin' = TwinDelete(c)
     \/ \E s \in Sessions :
          /\ OnInit(s, DefaultGroup, FALSE)
          /\ twin' = TwinInit(s, DefaultGroup)

SpecTwin == Init /\ [][NextTwin]_vars

\* Editing during a sync: an administrator's /addbank, /delbank and /renamebank
\* are handled between the awaits of a running template sync.
NextSyncRace ==
  /\ now <= MaxSyncRaceClock
  /\ \/ Connect("s1")
     \/ createChecklist("s1", Q1, "u1", DefaultGroup, FALSE)
     \/ addbank("u1", wamo, "ok")
     \/ delbank("u1", 2, "ok")
     \/ renamebank("u1", 1, Zen, "ok")
     \/ syncSelect("u1")
     \/ syncUpdate
     \/ syncDone
  /\ UNCHANGED twin

SpecSyncRace == Init /\ [][NextSyncRace]_vars

\* ------------------------------------------------------------------ client
\* this.checklists.find(c => String(c.id) === String(checklistId)): the index of
\* the first such checklist of a cache, 0 when none
FindChecklist(cache, checklistId) ==
  IF \E i \in 1..Len(cache) : cache[i].id = checklistId
  THEN CHOOSE i \in 1..Len(cache) :
         cache[i].id = checklistId /\ \A j \in 1..(i - 1) : cache[j].id # checklistId
  ELSE 0

\* checklist.items.find(i => String(i.id) === String(itemId))
FindItemByString(items, itemId) ==
  IF \E i \in 1..Len(items) : IdString(items[i].id) = itemId
  THEN CHOOSE i \in 1..Len(items) :
         IdString(items[i].id) = itemId /\ \A j \in 1..(i - 1) : IdString(items[j].id) # itemId
  ELSE 0

\* this.checklists.filter(c => String(c.id) !== String(checklistId))
RECURSIVE WithoutChecklist(_, _)
WithoutChecklist(cache, checklistId) ==
  IF cache = <<>> THEN <<>>
  ELSE IF Head(cache).id = checklistId THEN WithoutChecklist(Tail(cache), checklistId)
       ELSE <<Head(cache)>> \o WithoutChecklist(Tail(cache), checklistId)

\* The item of an itemUpdated, detailsUpdated or emojiUpdated event, changed as
\* the client's handler of the event changes it.
OnItemEvent(item, ev) ==
  CASE ev.type = "itemUpdated" -> [item EXCEPT !.status = ev.status, !.emoji = ev.emoji]
    [] ev.type = "detailsUpdated" -> [item EXCEPT !.details = ev.details]
    [] ev.type = "emojiUpdated" -> [item EXCEPT !.emoji = ev.emoji]

\* A client whose init handler adds the snapshot to what it holds:
\* this.checklists.push(...data.checklists).
OnEventInitAdds(cache, ev) ==
  CASE ev.type = "init" -> cache \o ev.checklists
    [] ev.type = "checklistCreated" -> Append(cache, ev.checklist)
    [] ev.type \in {"itemUpdated", "detailsUpdated", "emojiUpdated"} ->
         LET c == FindChecklist(cache, ev.checklistId)
         IN IF c = 0 THEN cache
            ELSE LET k == FindItemByString(cache[c].items, ev.itemId)
                 IN IF k = 0 THEN cache
                    ELSE [cache EXCEPT ![c].items[k] = OnItemEvent(@, ev)]
    [] ev.type = "checklistDeleted" -> WithoutChecklist(cache, ev.checklistId)
    [] OTHER -> cache

\* ChecklistApp.setupSocketEvents: this.checklists after the handler of one event
OnEvent(cache, ev) ==
  CASE ev.type = "init" -> ev.checklists
    [] ev.type = "checklistCreated" -> Append(cache, ev.checklist)
    [] ev.type \in {"itemUpdated", "detailsUpdated", "emojiUpdated"} ->
         LET c == FindChecklist(cache, ev.checklistId)
         IN IF c = 0 THEN cache
            ELSE LET k == FindItemByString(cache[c].items, ev.itemId)
                 IN IF k = 0 THEN cache
                    ELSE [cache EXCEPT ![c].items[k] = OnItemEvent(@, ev)]
    [] ev.type = "checklistDeleted" -> WithoutChecklist(cache, ev.checklistId)
    [] OTHER -> cache

\* this.checklists of a client that started empty and has handled, in order,
\* every event of events
RECURSIVE CacheOf(_)
CacheOf(events) ==
  IF events = <<>> THEN <<>>
  ELSE OnEvent(CacheOf(SubSeq(events, 1, Len(events) - 1)), events[Len(events)])

\* What the handler of one event makes the client of a session send: the handler
\* of templateUpdated calls loadChecklists, which emits init with this.groupId;
\* no other handler emits.
OnEventSends(ev, groupId) ==
  IF ev.type = "templateUpdated" THEN <<[type |-> "init", groupId |-> groupId]>> ELSE <<>>

\* The requests the handlers of a session's events have sent, oldest first.
RECURSIVE SentByHandlers(_, _)
SentByHandlers(events, groupId) ==
  IF events = <<>> THEN <<>>
  ELSE OnEventSends(Head(events), groupId) \o SentByHandlers(Tail(events), groupId)

\* The init replies a session has been sent.
InitReplies(events) == SelectSeq(events, LAMBDA ev : ev.type = "init")

\* The server handles the init a client sent from its templateUpdated handler:
\* the oldest of those that have not been answered.
Refetch(s, dbError) ==
  LET sent == SentByHandlers(inbox[s], SessionGroup[s])
      answered == Len(InitReplies(inbox[s]))
  IN /\ answered < Len(sent)
     /\ OnInit(s, sent[answered + 1].groupId, dbError)

\* Propagation: an administrator edits the template and syncs while two sessions
\* of different groups work on checklists; the clients re-fetch when told to.
NextSync ==
  /\ now <= MaxSyncClock
  /\ \/ \E s \in Sessions : Connect(s)
     \/ \E s \in Sessions : createChecklist(s, Q1, SessionUser[s], SessionGroup[s], FALSE)
     \/ \E s \in Sessions : updateItemStatus(s, 1, "1", SessionUser[s], "none")
     \/ delbank("u1", 1, "ok")
     \/ \E u \in UserIds, e \in DbErrors : syncbanks(u, e)
     \/ \E s \in Sessions, e \in BOOLEAN : Refetch(s, e)
  /\ UNCHANGED twin

SpecSync == Init /\ [][NextSync]_vars

\* ------------------------------------------------------ reading the history
HasItem(st, cl, id) == cl \in DOMAIN st /\ FindItem(st[cl].items, id) # 0
ItemAt(st, cl, id) == st[cl].items[FindItem(st[cl].items, id)]

Entries == 1..Len(journal)
AllItemIds == 1..(MaxTemplate + 1)

\* The history entry rewrote item id of checklist cl.
Touches(e, cl, id) ==
  \/ e.op \in {"advance", "details", "emoji"} /\ e.cl = cl /\ e.it = id
  \/ e.op \in {"sync", "sync-unsaved"}
  \/ e.op = "delete" /\ e.cl = cl

\* The mutations of one item, oldest first.
ItemHistory(cl, id) == SelectSeq(journal, LAMBDA e : Touches(e, cl, id))

\* Entries k..k+3 of an item's history are four advances of the item.
FourAdvances(h, k) == k + 3 <= Len(h) /\ \A j \in k..(k + 3) : h[j].op = "advance"

Canonical(item) == item.emoji = statusEmoji[item.status]

\* ------------------------------------------------------------------ claims
\* C1 as stated: four consecutive advances of an item, with no other mutation of
\* the item in between, leave its status and its glyph as they were before the
\* first of them.
C1_CycleClosureStatusAndGlyph ==
  \A cl \in ChecklistIds, id \in AllItemIds :
    LET h == ItemHistory(cl, id)
    IN \A k \in 1..Len(h) :
         FourAdvances(h, k) =>
           /\ ItemAt(h[k + 3].post, cl, id).status = ItemAt(h[k].pre, cl, id).status
           /\ ItemAt(h[k + 3].post, cl, id).emoji = ItemAt(h[k].pre, cl, id).emoji

\* C1 amended: four consecutive advances of an item, with no other mutation of the
\* item in between, leave its status as it was before the first of them and its
\* glyph the canonical glyph of that status; the glyph is then the one held
\* before the first advance whenever that one was canonical.
C1_CycleClosure ==
  \A cl \in ChecklistIds, id \in AllItemIds :
    LET h == ItemHistory(cl, id)
    IN \A k \in 1..Len(h) :
         FourAdvances(h, k) =>
           LET before == ItemAt(h[k].pre, cl, id)
               after == ItemAt(h[k + 3].post, cl, id)
           IN /\ after.status = before.status
              /\ after.emoji = statusEmoji[before.status]
              /\ Canonical(before) => after.emoji = before.emoji

\* C1 witness: an item has been advanced four times in a row.
C1_Witness ==
  \E cl \in ChecklistIds, id \in AllItemIds :
    \E k \in 1..Len(ItemHistory(cl, id)) : FourAdvances(ItemHistory(cl, id), k)

\* C2: every completed advance leaves the item with the canonical glyph of the
\* status it leaves it with, whatever glyph the item had before.
C2_AdvanceSetsCanonicalGlyph ==
  \A k \in Entries :
    journal[k].op = "advance" =>
      LET e == journal[k]
      IN /\ ItemAt(e.post, e.cl, e.it).status = NextStatus(ItemAt(e.pre, e.cl, e.it).status)
         /\ Canonical(ItemAt(e.post, e.cl, e.it))

\* C2 witness: an item whose glyph had been overridden has been advanced.
C2_Witness ==
  \E k \in Entries :
    /\ journal[k].op = "advance"
    /\ ~Canonical(ItemAt(journal[k].pre, journal[k].cl, journal[k].it))

\* The requests that set the glyph of item id of checklist cl, in the order in
\* which they completed: the creation of the checklist, the advances and the
\* glyph overrides of the item.
GlyphWrites(cl, id) ==
  SelectSeq(journal, LAMBDA e : \/ e.op = "create" /\ e.cl = cl
                                \/ e.op \in {"advance", "emoji"} /\ e.cl = cl /\ e.it = id)

\* C3 as stated: in every state of the store an item's glyph is the canonical
\* glyph of its status unless the most recent write to that item's glyph was a
\* glyph override: whatever the interleaving of creations, advances, details
\* updates and overrides, an item whose glyph was last written by its creation or
\* by an advance has the glyph of its status.
C3_GlyphCanonicalUnlessOverridden ==
  \A cl \in DOMAIN store :
    \A k \in 1..Len(store[cl].items) :
      LET item == store[cl].items[k]
          w == GlyphWrites(cl, item.id)
      IN (w # <<>> /\ w[Len(w)].op # "emoji") => Canonical(item)

\* The items a createChecklist entry inserted.
Created(e) == e.post[e.cl].items

\* C5 as stated: a created checklist has one item per entry of the registry of
\* that moment, in registry order, each NOT_STARTED and with empty details, and
\* advancing its first item once gives IN_PROGRESS.
C5_CreatedAllNotStarted ==
  \A k \in Entries :
    journal[k].op = "create" =>
      LET e == journal[k]
      IN /\ Len(Created(e)) = Len(e.tmpl)
         /\ \A i \in 1..Len(Created(e)) :
              /\ Created(e)[i].id = e.tmpl[i].id
              /\ Created(e)[i].name = e.tmpl[i].name
              /\ Created(e)[i].status = "NOT_STARTED"
              /\ Created(e)[i].details = EmptyDetails
         /\ (k < Len(journal) /\ Created(e) # <<>> /\ journal[k + 1].op = "advance"
               /\ journal[k + 1].cl = e.cl /\ journal[k + 1].it = Created(e)[1].id)
            => ItemAt(journal[k + 1].post, e.cl, Created(e)[1].id).status = "IN_PROGRESS"

\* C5 amended: a created checklist has one item per entry of the registry of that
\* moment, in registry order, each with the status and glyph of its entry (which
\* is NOT_STARTED for every entry server.js can hold) and with empty details, and
\* advancing its first item once gives the status after its entry's
\* (IN_PROGRESS in server.js).
C5_CreatedFromTemplate ==
  \A k \in Entries :
    journal[k].op = "create" =>
      LET e == journal[k]
      IN /\ Len(Created(e)) = Len(e.tmpl)
         /\ \A i \in 1..Len(Created(e)) :
              /\ Created(e)[i].id = e.tmpl[i].id
              /\ Created(e)[i].name = e.tmpl[i].name
              /\ Created(e)[i].status = e.tmpl[i].status
              /\ Created(e)[i].emoji = e.tmpl[i].emoji
              /\ server = "hard" => Created(e)[i].status = "NOT_STARTED"
              /\ Created(e)[i].details = EmptyDetails
         /\ (k < Len(journal) /\ Created(e) # <<>> /\ journal[k + 1].op = "advance"
               /\ journal[k + 1].cl = e.cl /\ journal[k + 1].it = Created(e)[1].id)
            => LET first == ItemAt(journal[k + 1].post, e.cl, Created(e)[1].id)
               IN /\ first.status = NextStatus(e.tmpl[1].status)
                  /\ server = "hard" => first.status = "IN_PROGRESS"

\* C5 witness: a checklist was created from a registry that had been edited, and
\* its first item was advanced next.
C5_Witness ==
  \E k \in Entries :
    /\ journal[k].op = "create"
    /\ journal[k].tmpl # DefaultTemplate(server)
    /\ k < Len(journal)
    /\ journal[k + 1].op = "advance"
    /\ journal[k + 1].cl = journal[k].cl
    /\ journal[k + 1].it = Created(journal[k])[1].id

SameName(a, b) == ToLowerCase(a.name) = ToLowerCase(b.name)

\* C8 as stated: after a sync with no registry entry renamed, an item whose name
\* equals, case-insensitively, the name of an item of the prior list has that
\* item's status, glyph, details, lastModified and modifiedBy, and an item whose
\* name matches no prior item has its entry's status and glyph and empty details.
C8_SyncPreservesByName ==
  \A k \in Entries :
    (journal[k].op = "sync" /\ \A j \in 1..k : journal[j].op # "renamebank") =>
      LET e == journal[k]
      IN \A cl \in DOMAIN e.post :
           \A i \in 1..Len(e.post[cl].items) :
             LET new == e.post[cl].items[i]
                 prior == Range(e.pre[cl].items)
             IN /\ \A old \in prior :
                     SameName(new, old) =>
                       /\ new.status = old.status
                       /\ new.emoji = old.emoji
                       /\ new.details = old.details
                       /\ new.lastModified = old.lastModified
                       /\ new.modifiedBy = old.modifiedBy
                /\ (\A old \in prior : ~SameName(new, old)) =>
                     /\ new.status = e.tmpl[i].status
                     /\ new.emoji = e.tmpl[i].emoji
                     /\ new.details = EmptyDetails

\* new String(name).trim() is empty, or the name has more than 50 characters
BadName(name) == Trim(name) = <<>> \/ Len(name) > MaxNameLen

\* C4 as stated: a createChecklist whose name is empty, blank or longer than 50
\* characters inserts no row and broadcasts no checklistCreated event.
C4_BadNameNotCreated ==
  /\ \A cl \in DOMAIN store : ~BadName(store[cl].name)
  /\ \A s \in Sessions :
       \A k \in 1..Len(inbox[s]) :
         inbox[s][k].type = "checklistCreated" => ~BadName(inbox[s][k].checklist.name)

\* The events a session was sent by the request of a history entry.
Sent(e, s) == SubSeq(e.boxPost[s], Len(e.boxPre[s]) + 1, Len(e.boxPost[s]))

\* C6: a completed advance sends every other session connected at that moment
\* exactly one event, an itemUpdated with the checklist id and the item id of the
\* request and the status and the glyph the advance stored.
C6_AdvanceBroadcast ==
  \A k \in Entries :
    journal[k].op = "advance" =>
      LET e == journal[k]
          stored == ItemAt(e.post, e.cl, e.it)
      IN \A s \in e.conn \ {e.by} :
           /\ Len(Sent(e, s)) = 1
           /\ Sent(e, s)[1].type = "itemUpdated"
           /\ Sent(e, s)[1].checklistId = e.cl
           /\ Sent(e, s)[1].itemId = e.itemId
           /\ ParseInt(Sent(e, s)[1].itemId) = e.it
           /\ Sent(e, s)[1].status = stored.status
           /\ Sent(e, s)[1].emoji = stored.emoji

\* C6 witness: an advance completed while another session was connected.
C6_Witness ==
  \E k \in Entries : journal[k].op = "advance" /\ journal[k].conn \ {journal[k].by} # {}

\* The checklist ids of an init event.
Listed(ev) == {ev.checklists[i].id : i \in 1..Len(ev.checklists)}

\* C7: once a deleteChecklist of an existing checklist has completed, no listing
\* of a group and no snapshot sent afterwards holds the checklist, and the request
\* sent each connected session exactly one checklistDeleted event, with its id.
C7_DeleteRemovesAndNotifies ==
  \A k \in Entries :
    (journal[k].op = "delete" /\ journal[k].cl \in DOMAIN journal[k].pre) =>
      LET e == journal[k]
      IN /\ \A g \in Range(SessionGroup) :
              \A i \in 1..Len(ListActive(store, g)) : ListActive(store, g)[i].id # e.cl
         /\ \A s \in Sessions :
              \A i \in (Len(e.boxPost[s]) + 1)..Len(inbox[s]) :
                inbox[s][i].type = "init" => e.cl \notin Listed(inbox[s][i])
         /\ \A s \in e.conn :
              Sent(e, s) = <<[type |-> "checklistDeleted", checklistId |-> e.cl]>>
         /\ \A s \in Sessions \ e.conn : Sent(e, s) = <<>>

\* C7 witness: a checklist was deleted and a session of its group was sent a
\* snapshot afterwards.
C7_Witness ==
  \E k \in Entries :
    /\ journal[k].op = "delete"
    /\ journal[k].cl \in DOMAIN journal[k].pre
    /\ \E s \in Sessions :
         /\ SessionGroup[s] = journal[k].pre[journal[k].cl].group_id
         /\ \E i \in (Len(journal[k].boxPost[s]) + 1)..Len(inbox[s]) : inbox[s][i].type = "init"

\* Two entries next to each other in the history are details updates of one item.
DetailsPair(k) ==
  /\ k < Len(journal)
  /\ journal[k].op = "details" /\ journal[k + 1].op = "details"
  /\ journal[k].cl = journal[k + 1].cl /\ journal[k].it = journal[k + 1].it

\* The record that has the fields of a and those of b, with disjoint fields, set
\* in d.
BothSet(d, a, b) ==
  [f \in DOMAIN d \cup DOMAIN a \cup DOMAIN b |->
     IF f \in DOMAIN a THEN a[f] ELSE IF f \in DOMAIN b THEN b[f] ELSE d[f]]

\* C9: the same partial update applied twice in succession leaves the details
\* record the first application left, and two updates of disjoint fields applied
\* in succession leave the record with both sets of fields set, which is the same
\* for either order.
C9_DetailsIdempotentCommutative ==
  \A k \in Entries :
    DetailsPair(k) =>
      LET a == journal[k].arg
          b == journal[k + 1].arg
          d0 == ItemAt(journal[k].pre, journal[k].cl, journal[k].it).details
          d1 == ItemAt(journal[k].post, journal[k].cl, journal[k].it).details
          d2 == ItemAt(journal[k + 1].post, journal[k].cl, journal[k].it).details
      IN /\ a = b => d2 = d1
         /\ DOMAIN a \cap DOMAIN b = {} => d2 = BothSet(d0, a, b) /\ d2 = BothSet(d0, b, a)

\* C9 witness: two updates of disjoint fields were applied to an item in succession.
C9_Witness ==
  \E k \in Entries :
    /\ DetailsPair(k)
    /\ DOMAIN journal[k].arg \cap DOMAIN journal[k + 1].arg = {}

\* C10: a completed details update leaves every details field it was not given,
\* the status and the glyph of the item as they were, sets the fields it was
\* given, and leaves every other item and every other checklist as they were.
C10_DetailsFrame ==
  \A k \in Entries :
    journal[k].op = "details" =>
      LET e == journal[k]
          old == ItemAt(e.pre, e.cl, e.it)
          new == ItemAt(e.post, e.cl, e.it)
      IN /\ DOMAIN new.details = DOMAIN old.details \cup DOMAIN e.arg
         /\ \A f \in DOMAIN old.details \ DOMAIN e.arg : new.details[f] = old.details[f]
         /\ \A f \in DOMAIN e.arg : new.details[f] = e.arg[f]
         /\ new.status = old.status /\ new.emoji = old.emoji
         /\ new.id = old.id /\ new.name = old.name
         /\ DOMAIN e.post = DOMAIN e.pre
         /\ \A cl \in DOMAIN e.pre \ {e.cl} : e.post[cl] = e.pre[cl]
         /\ Len(e.post[e.cl].items) = Len(e.pre[e.cl].items)
         /\ \A i \in 1..Len(e.pre[e.cl].items) :
              e.pre[e.cl].items[i].id # e.it => e.post[e.cl].items[i] = e.pre[e.cl].items[i]

\* C10 witness: a details update was applied to an item that held a non-empty
\* field the update did not name.
C10_Witness ==
  \E k \in Entries :
    /\ journal[k].op = "details"
    /\ \E f \in DOMAIN EmptyDetails \ DOMAIN journal[k].arg :
         ItemAt(journal[k].pre, journal[k].cl, journal[k].it).details[f] # ""


\* What a client shows of an item: its status, its glyph and its details.
Shown(item) == <<item.status, item.emoji, item.details>>

\* No request is between its select and its update.
Quiet == pending = <<>> /\ ~syncJob.running

\* C11 as stated: once no mutation is in flight and every event has been
\* delivered, each item of each checklist in the cache of a connected session has
\* the status, the glyph and the details the store holds for it, and a checklist
\* that two connected sessions hold has the same items in both caches.
C11_CachesAgreeWithStore ==
  Quiet =>
    /\ \A s \in connected :
         LET cache == CacheOf(inbox[s])
         IN \A c \in 1..Len(cache) :
              \A k \in 1..Len(cache[c].items) :
                HasItem(store, cache[c].id, cache[c].items[k].id) =>
                  Shown(cache[c].items[k]) = Shown(ItemAt(store, cache[c].id, cache[c].items[k].id))
    /\ \A s, t \in connected :
         LET a == CacheOf(inbox[s])
             b == CacheOf(inbox[t])
         IN \A i \in 1..Len(a), j \in 1..Len(b) :
              a[i].id = b[j].id => a[i].items = b[j].items

\* The status of item id in the items array a request read.
ReadStatus(e) == e.read[FindItem(e.read, e.it)].status

\* Entries j and k of the history are two advances of one item that raced: each
\* had read the checklist before the other wrote, and they read the same status.
Racing(j, k) ==
  /\ j < k
  /\ journal[j].op = "advance" /\ journal[k].op = "advance"
  /\ journal[j].cl = journal[k].cl /\ journal[j].it = journal[k].it
  /\ journal[k].seen < j
  /\ ReadStatus(journal[j]) = ReadStatus(journal[k])

\* The request of entry e sent every session connected then one itemUpdated with
\* status st.
BroadcastStatus(e, st) ==
  \A s \in e.conn :
    /\ Len(Sent(e, s)) = 1
    /\ Sent(e, s)[1].type = "itemUpdated"
    /\ Sent(e, s)[1].status = st

\* C12: when two advances of one item race, both having read the checklist before
\* either wrote, both complete, each broadcasts an itemUpdated, and the status the
\* store holds after the second is one step of the cycle after the status they
\* read, not two.
C12_RacingAdvancesMoveOneStep ==
  \A j, k \in Entries :
    Racing(j, k) =>
      LET read == ReadStatus(journal[j])
          step == NextStatus(read)
      IN /\ ItemAt(journal[j].post, journal[j].cl, journal[j].it).status = step
         /\ ItemAt(journal[k].post, journal[k].cl, journal[k].it).status = step
         /\ step # NextStatus(step)
         /\ BroadcastStatus(journal[j], step)
         /\ BroadcastStatus(journal[k], step)

\* C12 witness: two advances of one item raced and completed one right after the
\* other.
C12_Witness ==
  \E j \in Entries : j < Len(journal) /\ Racing(j, j + 1) /\ journal[j].conn # {}

\* Entry k of the history is the delete of a checklist that was listed before it.
DeletesListed(k) ==
  /\ journal[k].op = "delete"
  /\ journal[k].cl \in DOMAIN journal[k].pre
  /\ ~journal[k].pre[journal[k].cl].is_archived

\* The groups a listing can be asked for.
Groups == Range(SessionGroup) \cup {store[c].group_id : c \in DOMAIN store}

Served == now' # now

\* The request just handled is a mutation that named a checklist id the table
\* does not hold, or an item id its checklist does not hold.
NamedAbsent ==
  /\ Served
  /\ last'.op \in {"advance", "details", "emoji", "delete"}
  /\ \/ last'.cl \notin DOMAIN store
     \/ last'.op # "delete" /\ ~HasItem(store, last'.cl, ParseInt(last'.itemId))

\* C14 as stated: an advance, details update, glyph override or delete that names
\* a checklist id or an item id the store does not hold leaves the store as it
\* was and sends no event to any session.
C14_AbsentTargetIgnored == [][NamedAbsent => (store' = store /\ inbox' = inbox)]_vars

\* The session that sent the request just handled was sent one more event, an
\* error, and no other session was sent anything.
OnlyCallerTold ==
  /\ Len(inbox'[last'.by]) = Len(inbox[last'.by]) + 1
  /\ SubSeq(inbox'[last'.by], 1, Len(inbox[last'.by])) = inbox[last'.by]
  /\ inbox'[last'.by][Len(inbox'[last'.by])].type = "error"
  /\ \A s \in Sessions \ {last'.by} : inbox'[s] = inbox[s]

\* C15 as stated: an advance whose item id is not in the checklist it names makes
\* the session that sent it receive a failure signal, and no other session
\* receives anything because of it.
C15_UnknownItemSignalsCaller ==
  [][(Served /\ last'.op = "advance" /\ last'.outcome = "no-item") => OnlyCallerTold]_vars

\* The mutations of the socket interface and the event each broadcasts.
MutationOps == {"create", "advance", "details", "emoji", "delete"}
EventType ==
  [create |-> "checklistCreated", advance |-> "itemUpdated", details |-> "detailsUpdated",
   emoji |-> "emojiUpdated", delete |-> "checklistDeleted"]

\* The events session s was sent by the request just handled.
NewEvents(s) == SubSeq(inbox'[s], Len(inbox[s]) + 1, Len(inbox'[s]))

\* The store, after the request just handled, holds what event ev announces.
Persisted(ev) ==
  CASE ev.type = "checklistCreated" ->
         ev.checklist.id \in DOMAIN store' /\ store'[ev.checklist.id] = ev.checklist
    [] ev.type = "itemUpdated" ->
         /\ HasItem(store', ev.checklistId, ParseInt(ev.itemId))
         /\ ItemAt(store', ev.checklistId, ParseInt(ev.itemId)).status = ev.status
         /\ ItemAt(store', ev.checklistId, ParseInt(ev.itemId)).emoji = ev.emoji
    [] ev.type = "detailsUpdated" ->
         /\ HasItem(store', ev.checklistId, ParseInt(ev.itemId))
         /\ ItemAt(store', ev.checklistId, ParseInt(ev.itemId)).details = ev.details
    [] ev.type = "emojiUpdated" ->
         /\ HasItem(store', ev.checklistId, ParseInt(ev.itemId))
         /\ ItemAt(store', ev.checklistId, ParseInt(ev.itemId)).emoji = ev.emoji
    [] ev.type = "checklistDeleted" ->
         ev.checklistId \notin DOMAIN store' \/ store'[ev.checklistId].is_archived
    [] OTHER -> FALSE

\* C16: a mutation whose store read or write fails leaves the store as it was and
\* broadcasts nothing (at most its sender is sent an error), and a mutation's
\* event is sent only by a request that ended without error, is the event of that
\* mutation, and announces what the store holds by then.
C16_PersistThenBroadcast ==
  [][(Served /\ last'.op \in MutationOps) =>
       /\ last'.outcome # "ok" =>
            /\ store' = store
            /\ \A s \in Sessions :
                 \A i \in 1..Len(NewEvents(s)) :
                   NewEvents(s)[i].type = "error" /\ s = last'.by
       /\ \A s \in Sessions :
            \A i \in 1..Len(NewEvents(s)) :
              NewEvents(s)[i].type # "error" =>
                /\ last'.outcome = "ok"
                /\ NewEvents(s)[i].type = EventType[last'.op]
                /\ Persisted(NewEvents(s)[i])]_vars

\* C16 witness: the update of an item request failed while both sessions were
\* connected.
C16_Witness ==
  /\ last.op \in {"advance", "details", "emoji"}
  /\ last.outcome = "update-error"
  /\ connected = Sessions

\* How a request ends when a read or a write of the store fails.
Failures == {"select-error", "update-error", "insert-error", "delete-error"}

\* C17 as stated: when the store read or write of a create, advance, details
\* update, glyph override or delete fails, the session that sent the request is
\* sent an error message for it.
C17_FailureReported ==
  [][(Served /\ last'.op \in MutationOps /\ last'.outcome \in Failures) =>
       \E i \in 1..Len(NewEvents(last'.by)) : NewEvents(last'.by)[i].type = "error"]_vars

\* C18 as stated: an init, createChecklist, updateItemStatus, updateItemDetails,
\* updateItemEmoji or deleteChecklist of a session whose client was refused by
\* /api/auth, or never called it, changes nothing in the store and is answered
\* with no checklist.
C18_UnauthenticatedGetsNothing ==
  [][(Served /\ last'.op \in MutationOps \cup {"init"} /\ auth[last'.by].answer # "ok") =>
       /\ store' = store
       /\ \A i \in 1..Len(NewEvents(last'.by)) :
            NewEvents(last'.by)[i].type = "init" => NewEvents(last'.by)[i].checklists = <<>>]_vars

\* The user ids the request just handled left on what it wrote: created_by and the
\* items' modifiedBy of a created row, modifiedBy of a changed item.
RecordedBy ==
  IF last'.op = "create"
  THEN {store'[last'.cl].created_by}
         \cup {store'[last'.cl].items[i].modifiedBy : i \in 1..Len(store'[last'.cl].items)}
  ELSE {ItemAt(store', last'.cl, ParseInt(last'.itemId)).modifiedBy}

\* The user ids carried by the events the request just handled sent to session s.
AnnouncedBy(s) ==
  {IF NewEvents(s)[i].type = "checklistCreated" THEN NewEvents(s)[i].checklist.created_by
   ELSE NewEvents(s)[i].modifiedBy : i \in 1..Len(NewEvents(s))}

\* C20 as stated: the modifiedBy a mutation records on what it writes, and sends
\* in its event, is the user id /api/auth gave the session that sent it, whatever
\* userId the request carries.
C20_ModifiedByIsAuthenticated ==
  [][(/\ Served
      /\ last'.op \in {"create", "advance", "details", "emoji"}
      /\ last'.outcome = "ok"
      /\ auth[last'.by].answer = "ok") =>
       /\ RecordedBy = {auth[last'.by].userId}
       /\ \A s \in connected : AnnouncedBy(s) = {auth[last'.by].userId}]_vars

\* The commands of the bot that only an administrator may use, and the messages
\* with which they turn a sender away.
AdminCommands ==
  {"addbank", "delbank", "renamebank", "syncbanks", "admin", "unadmin", "adduser", "deluser"}
DenialMessages == {"Admin only", "Access denied", "No rights"}

\* The users table holds a row for the user with its admin flag set.
FlagSet(userId) == userId \in DOMAIN users /\ users[userId].is_admin

\* C19: a template or user-administration command whose sender's admin flag is not
\* set when the command is handled is answered with one denial message and changes
\* neither the template registry, nor the saved template, nor the users table, nor
\* any checklist, and no session receives an event.
C19_NonAdminCommandDenied ==
  [][(Served /\ last'.op \in AdminCommands /\ ~FlagSet(last'.by)) =>
       /\ \E m \in DenialMessages : botOut' = Append(botOut, m)
       /\ last'.outcome = "denied"
       /\ UNCHANGED <<BANK_TEMPLATE, settings, users, invited, store, nextId, inbox>>]_vars

\* A command was turned away while a session was connected and a checklist stored.
C19_Witness ==
  /\ last.op \in AdminCommands
  /\ last.outcome = "denied"
  /\ connected # {}
  /\ DOMAIN store # {}

\* The type of the event a mutation of the socket interface, or a template sync,
\* broadcasts.
AnnouncedAs(op) == IF op = "syncbanks" THEN "templateUpdated" ELSE EventType[op]

\* C21: a mutation that succeeds (a creation, an advance, a details update, a
\* glyph override, a delete, a template sync) sends its one event to every session
\* connected at that moment, the session that asked and the sessions of other
\* groups included, the same event to all, and nothing to a session that is not
\* connected.
C21_BroadcastReachesAll ==
  [][(Served /\ last'.outcome = "ok" /\ last'.op \in MutationOps \cup {"syncbanks"}) =>
       /\ \A s \in connected :
            /\ Len(NewEvents(s)) = 1
            /\ NewEvents(s)[1].type = AnnouncedAs(last'.op)
            /\ inbox'[s] = Append(inbox[s], NewEvents(s)[1])
       /\ \A s, t \in connected : NewEvents(s) = NewEvents(t)
       /\ \A s \in Sessions \ connected : inbox'[s] = inbox[s]]_vars

\* C21 witness: a session changed a checklist of its group while the session of
\* the other group was connected too, and both were sent the event.
C21_Witness ==
  \E k \in Entries :
    /\ journal[k].op \in MutationOps
    /\ journal[k].by \in Sessions
    /\ journal[k].conn = Sessions
    /\ journal[k].cl \in DOMAIN journal[k].post
    /\ journal[k].post[journal[k].cl].group_id = SessionGroup[journal[k].by]
    /\ \A s \in Sessions : Len(Sent(journal[k], s)) = 1

\* Session s has been sent a snapshot: its client has joined its group.
Joined(s) == \E i \in 1..Len(inbox[s]) : inbox[s][i].type = "init"

\* C22 as stated: the checklists in the cache of a session that has joined a group
\* are all of that group, although the events of every group are sent to it.
C22_CacheHoldsOwnGroupOnly ==
  \A s \in Sessions :
    Joined(s) =>
      \A c \in 1..Len(CacheOf(inbox[s])) : CacheOf(inbox[s])[c].group_id = SessionGroup[s]

\* The events a mutation broadcasts to the caches.
CacheEvents ==
  {"checklistCreated", "itemUpdated", "detailsUpdated", "emojiUpdated", "checklistDeleted"}

\* C23 as stated: whenever a session is sent a checklistCreated, itemUpdated,
\* detailsUpdated, emojiUpdated or checklistDeleted event, handling the event twice
\* leaves the session's cache as handling it once does.
C23_EventsIdempotent ==
  \A s \in Sessions :
    \A i \in 1..Len(inbox[s]) :
      inbox[s][i].type \in CacheEvents =>
        LET once == CacheOf(SubSeq(inbox[s], 1, i))
        IN OnEvent(once, inbox[s][i]) = once


\* The init just handled sent its session one event, an init, and sent no other
\* session anything, and left the table as it was.
OneReplyToCaller ==
  /\ Len(NewEvents(last'.by)) = 1
  /\ NewEvents(last'.by)[1].type = "init"
  /\ inbox'[last'.by] = Append(inbox[last'.by], NewEvents(last'.by)[1])
  /\ \A s \in Sessions \ {last'.by} : inbox'[s] = inbox[s]
  /\ store' = store /\ nextId' = nextId

\* The rows of the table of group g, or of 'default-group' when g is empty, that
\* are not archived.
ActiveRows(g) ==
  {store[c] : c \in {d \in DOMAIN store :
                       /\ store[d].group_id = (IF g = "" THEN DefaultGroup ELSE g)
                       /\ ~store[d].is_archived}}

\* The init reply lists each row of rows once and nothing else.
ListsExactly(ev, rows) ==
  /\ Range(ev.checklists) = rows
  /\ Len(ev.checklists) = Cardinality(rows)

CacheIs(box, s, rows) ==
  /\ Range(CacheOf(box[s])) = rows
  /\ Len(CacheOf(box[s])) = Cardinality(rows)

\* No step sends anything to a session that is not connected, and connecting
\* sends a session nothing: what was broadcast while it was away is not sent later.
NoReplay ==
  /\ \A s \in Sessions \ connected : inbox'[s] = inbox[s]
  /\ ~Served => inbox' = inbox

\* C25 as stated: a session receives none of the events broadcast while it was
\* disconnected, and once it is connected again and its init has been handled,
\* no request being between its select and its update, its cache holds exactly
\* the checklists of its group that the store holds and that are not archived.
C25_ResyncByInit ==
  [][/\ NoReplay
     /\ (Served /\ last'.op = "init" /\ Quiet) =>
          CacheIs(inbox', last'.by, ActiveRows(last'.itemId))]_vars

\* C25 amended: the same when the select of the init succeeds; when it fails the
\* cache is left empty.
C25_ResyncByInitOrEmpty ==
  [][/\ NoReplay
     /\ (Served /\ last'.op = "init" /\ Quiet) =>
          IF last'.outcome = "ok"
          THEN CacheIs(inbox', last'.by, ActiveRows(last'.itemId))
          ELSE CacheOf(inbox'[last'.by]) = <<>>]_vars

\* C25 witness: a checklist of a session's group was changed while the session,
\* which held it in its cache, was disconnected; the session has connected again
\* and its init has just replaced the cache it was left with.
C25_Witness ==
  /\ last.op = "init" /\ last.outcome = "ok"
  /\ last.by \in connected
  /\ \E k \in Entries :
       /\ last.by \notin journal[k].conn
       /\ journal[k].cl \in DOMAIN store
       /\ store[journal[k].cl].group_id = SessionGroup[last.by]
       /\ Sent(journal[k], last.by) = <<>>
       /\ LET before == CacheOf(SubSeq(inbox[last.by], 1, Len(inbox[last.by]) - 1))
          IN /\ FindChecklist(before, journal[k].cl) # 0
             /\ before # CacheOf(inbox[last.by])

\* An item, a checklist, an event without the glyphs an advance takes from the
\* server's statusEmoji.
NoGlyph(item) == [item EXCEPT !.emoji = ""]
NoGlyphs(row) == [row EXCEPT !.items = [i \in 1..Len(row.items) |-> NoGlyph(row.items[i])]]
UpToGlyphs(ev) ==
  CASE ev.type = "itemUpdated" -> [ev EXCEPT !.emoji = ""]
    [] ev.type = "init" ->
         [ev EXCEPT !.checklists = [i \in 1..Len(ev.checklists) |-> NoGlyphs(ev.checklists[i])]]
    [] ev.type = "checklistCreated" -> [ev EXCEPT !.checklist = NoGlyphs(ev.checklist)]
    [] OTHER -> ev

\* C26 as stated: server.js and the archiving variant, started with the same rows
\* and sent the same init, updateItemStatus, updateItemDetails, updateItemEmoji
\* and deleteChecklist requests, send every session the same events and the same
\* snapshots, up to the glyphs of their statusEmoji tables.
C26_ServersIndistinguishable ==
  \A s \in Sessions :
    /\ Len(inbox[s]) = Len(twin.inbox[s])
    /\ \A i \in 1..Len(inbox[s]) : UpToGlyphs(inbox[s][i]) = UpToGlyphs(twin.inbox[s][i])

\* Item old of a prior list has the name, case aside, of no entry of template.
Unmatched(old, template) == \A i \in 1..Len(template) : ~SameName(old, template[i])

\* C27: after a template sync every checklist of the table has one item per entry
\* of the registry, in the order of the registry, each with the id and the name of
\* its entry, and no item with the name of an item of its prior list that matched
\* no entry.
C27_SyncFollowsTemplate ==
  \A k \in Entries :
    journal[k].op = "sync" =>
      LET e == journal[k]
      IN /\ DOMAIN e.post = DOMAIN e.pre
         /\ \A cl \in DOMAIN e.post :
              LET new == e.post[cl].items
              IN /\ Len(new) = Len(e.tmpl)
                 /\ \A i \in 1..Len(new) :
                      new[i].id = e.tmpl[i].id /\ new[i].name = e.tmpl[i].name
                 /\ \A old \in Range(e.pre[cl].items) :
                      Unmatched(old, e.tmpl) => \A i \in 1..Len(new) : ~SameName(new[i], old)

\* C27 witness: a sync dropped an item whose entry had been deleted or renamed and
\* brought in the item of an entry that was new.
C27_Witness ==
  \E k \in Entries :
    /\ journal[k].op = "sync"
    /\ \E cl \in DOMAIN journal[k].pre :
         /\ \E old \in Range(journal[k].pre[cl].items) : Unmatched(old, journal[k].tmpl)
         /\ \E i \in 1..Len(journal[k].tmpl) :
              \A old \in Range(journal[k].pre[cl].items) : ~SameName(journal[k].tmpl[i], old)

\* The syncbanks just handled, sent by an administrator, failed: the select of
\* the checklists failed, or the updates of the rows did.
SyncFailed ==
  \/ last'.outcome = "select-error"
  \/ /\ Len(journal') > Len(journal)
     /\ journal'[Len(journal')].op = "sync-unsaved"
     /\ DOMAIN store # {}

\* C28 as stated: a syncbanks that succeeds sends every connected session exactly
\* one event, a templateUpdated, and no itemUpdated, detailsUpdated or
\* emojiUpdated; one that fails sends no session anything; the handler of
\* templateUpdated makes the client send init for its group.
C28_SyncNotifiesOnce ==
  [][(Served /\ last'.op = "syncbanks" /\ last'.outcome # "denied") =>
       IF SyncFailed
       THEN inbox' = inbox
       ELSE /\ \A s \in connected :
                 /\ Len(NewEvents(s)) = 1
                 /\ NewEvents(s)[1].type = "templateUpdated"
                 /\ OnEventSends(NewEvents(s)[1], SessionGroup[s])
                      = <<[type |-> "init", groupId |-> SessionGroup[s]]>>
            /\ \A s \in Sessions \ connected : inbox'[s] = inbox[s]]_vars

\* The ids and the names of the items of a row, in order.
ItemSet(row) == [i \in 1..Len(row.items) |-> <<row.items[i].id, row.items[i].name>>]

\* The ids and the names of the entries of a registry, in order.
EntrySet(template) == [i \in 1..Len(template) |-> <<template[i].id, template[i].name>>]

\* C29: an /addbank, /delbank or /renamebank leaves every row of the table, items
\* included, as it was; the ids and names of the items of a checklist that is in
\* the table change in no step but a template sync; a checklist that is created
\* has the ids and names of the registry of that moment, edits included.
C29_EditsLeaveChecklists ==
  [][/\ (Served /\ last'.op \in {"addbank", "delbank", "renamebank"}) => store' = store
     /\ \A cl \in DOMAIN store \cap DOMAIN store' :
          ItemSet(store'[cl]) # ItemSet(store[cl]) => (Served /\ last'.op = "syncbanks")
     /\ (Served /\ last'.op = "create" /\ last'.outcome = "ok") =>
          ItemSet(store'[last'.cl]) = EntrySet(BANK_TEMPLATE)]_vars

\* C29 witness: a checklist has just been created from an edited registry while
\* an older checklist, which no sync has touched, keeps the items it was created
\* with.
C29_Witness ==
  /\ last.op = "create" /\ last.outcome = "ok"
  /\ BANK_TEMPLATE # DefaultTemplate(server)
  /\ \A k \in Entries : journal[k].op \notin {"sync", "sync-unsaved"}
  /\ \E cl \in DOMAIN store \ {last.cl} :
       /\ ItemSet(store[cl]) = EntrySet(DefaultTemplate(server))
       /\ ItemSet(store[last.cl]) = EntrySet(BANK_TEMPLATE)
       /\ ItemSet(store[cl]) # ItemSet(store[last.cl])

\* No two entries of a registry, or items of a checklist, have the same id.
DistinctIds(seq) == \A i, j \in 1..Len(seq) : seq[i].id = seq[j].id => i = j

\* C30: in every state the ids of the entries of the registry are pairwise
\* distinct, whatever /addbank, /delbank and /renamebank commands were handled and
\* in whatever order, and the ids of the items of every checklist, created or
\* synced from the registry, are pairwise distinct within the checklist.
C30_IdsDistinct ==
  /\ DistinctIds(BANK_TEMPLATE)
  /\ \A cl \in DOMAIN store : DistinctIds(store[cl].items)
  /\ \A k \in Entries : \A cl \in DOMAIN journal[k].post : DistinctIds(journal[k].post[cl].items)

\* C30 witness: the entry of the highest id was deleted, the next entry added was
\* given that id again, and a checklist was created or synced from the registry
\* after that.
C30_Witness ==
  \E j, k, m \in Entries :
    /\ j < k /\ k < m
    /\ journal[j].op = "delbank"
    /\ journal[j].it = MaxId(journal[j].tmpl)
    /\ journal[k].op = "addbank"
    /\ journal[k].it = journal[j].it
    /\ journal[m].op \in {"create", "sync"}
    /\ DOMAIN journal[m].post # {}

\* C31 as stated: an /admin or /unadmin command leaves the users table with the
\* rows it had, whoever the target is, known or not: no row is added, none is
\* removed, and no field of a row other than its admin flag changes.
C31_AdminChangesFlagOnly ==
  [][(Served /\ last'.op \in {"admin", "unadmin"}) =>
       /\ DOMAIN users' = DOMAIN users
       /\ invited' = invited
       /\ \A k \in DOMAIN users \cap DOMAIN users' : users'[k].username = users[k].username]_vars

\* C32: a completed glyph override leaves the item with the glyph it was given and
\* with the status and the details it had, sends every connected session one
\* emojiUpdated with the glyph it was given, and every advance of the item that
\* completes later leaves the item with the canonical glyph of its new status.
C32_OverrideSetsGlyphOnly ==
  \A k \in Entries :
    journal[k].op = "emoji" =>
      LET e == journal[k]
          old == ItemAt(e.pre, e.cl, e.it)
          new == ItemAt(e.post, e.cl, e.it)
      IN /\ new.emoji = e.arg
         /\ new.status = old.status
         /\ new.details = old.details
         /\ \A s \in e.conn :
              /\ Len(Sent(e, s)) = 1
              /\ Sent(e, s)[1].type = "emojiUpdated"
              /\ Sent(e, s)[1].checklistId = e.cl
              /\ ParseInt(Sent(e, s)[1].itemId) = e.it
              /\ Sent(e, s)[1].emoji = e.arg
         /\ \A m \in (k + 1)..Len(journal) :
              (journal[m].op = "advance" /\ journal[m].cl = e.cl /\ journal[m].it = e.it) =>
                LET after == ItemAt(journal[m].post, e.cl, e.it)
                IN /\ after.emoji = statusEmoji[after.status]
                   /\ after.status = NextStatus(ItemAt(journal[m].pre, e.cl, e.it).status)

\* C32 witness: the glyph of an item that had been advanced and given details was
\* overridden with a glyph that is not the one of its status, and the item was
\* advanced next.
C32_Witness ==
  \E k \in Entries :
    /\ journal[k].op = "emoji"
    /\ journal[k].conn # {}
    /\ ItemAt(journal[k].pre, journal[k].cl, journal[k].it).status # "NOT_STARTED"
    /\ ItemAt(journal[k].pre, journal[k].cl, journal[k].it).details # EmptyDetails
    /\ journal[k].arg # statusEmoji[ItemAt(journal[k].pre, journal[k].cl, journal[k].it).status]
    /\ k < Len(journal)
    /\ journal[k + 1].op = "advance"
    /\ journal[k + 1].cl = journal[k].cl /\ journal[k + 1].it = journal[k].it

\* C33 as stated: a completed advance, details update or glyph override of one
\* item leaves the status, the glyph and the details the table holds for every
\* other item of the checklist as they were, so that of two such requests on two
\* items of one checklist that overlap and both complete, both effects are in the
\* table.
C33_OtherItemsKept ==
  \A k \in Entries :
    journal[k].op \in {"advance", "details", "emoji"} =>
      LET e == journal[k]
      IN \A i \in 1..Len(e.pre[e.cl].items) :
           LET id == e.pre[e.cl].items[i].id
           IN id # e.it =>
                /\ HasItem(e.post, e.cl, id)
                /\ Shown(ItemAt(e.post, e.cl, id)) = Shown(e.pre[e.cl].items[i])

\* Entry m of the history is an advance or a details update that completed after
\* the sync of entry k had read the checklists and before that sync wrote the
\* checklist, and no other request rewrote the item in between.
DuringSync(m, k) ==
  /\ journal[k].op = "sync-row"
  /\ journal[m].op \in {"advance", "details"}
  /\ journal[m].cl = journal[k].cl
  /\ journal[k].seen < m /\ m < k
  /\ \A n \in (m + 1)..(k - 1) : ~Touches(journal[n], journal[m].cl, journal[m].it)

\* C34 as stated: an advance or a details update that completes while a template
\* sync is in progress is not undone by it: once the sync has written the
\* checklist, the item of the same name holds the status and the details the
\* request stored.
C34_SyncKeepsConcurrentMutation ==
  \A m, k \in Entries :
    (DuringSync(m, k) /\ journal[k].cl \in DOMAIN journal[k].post) =>
      LET stored == ItemAt(journal[m].post, journal[m].cl, journal[m].it)
          after == journal[k].post[journal[k].cl].items
      IN \A i \in 1..Len(after) :
           SameName(after[i], stored) =>
             /\ after[i].status = stored.status
             /\ after[i].details = stored.details

\* Checklist cl was in the table and a deleteChecklist of it has completed.
WasDeleted(cl) ==
  \E k \in Entries :
    journal[k].op = "delete" /\ journal[k].cl = cl /\ cl \in DOMAIN journal[k].pre

\* C35 as stated: once a checklist has been deleted, an advance, a details update
\* or a glyph override that names it changes nothing in the table and sends no
\* session anything, on server.js and on the archiving variant alike.
C35_DeletedChecklistFrozen ==
  [][(Served /\ last'.op \in {"advance", "details", "emoji"} /\ WasDeleted(last'.cl)) =>
       (store' = store /\ inbox' = inbox)]_vars

\* The registries the history has seen, and the one the step leaves.
Versions == {journal[k].tmpl : k \in Entries} \cup {BANK_TEMPLATE, BANK_TEMPLATE'}

\* C36 as stated: when a template sync completes, the checklists it synced all
\* have the ids and names, in order, of one and the same version of the registry,
\* also when /addbank, /delbank or /renamebank were handled while it was running.
C36_SyncAppliesOneVersion ==
  [][(Served /\ syncJob.running /\ last'.op = "syncbanks" /\ last'.outcome = "ok") =>
       \E v \in Versions :
         \A cl \in DOMAIN syncJob.rows \cap DOMAIN store' :
           ItemSet(store'[cl]) = EntrySet(v)]_vars

\* ------------------------------------------ snapshot requests between awaits
\* socket.on('init') up to its await: the select has answered at the database
\* with the rows of the group, and the handler goes on when the answer reaches it.
initSelect(s, groupId) ==
  /\ s \in connected
  /\ Len(pending) < MaxPending
  /\ pending' = Append(pending,
       [by |-> s, op |-> "init", cl |-> 0, itemId |-> groupId,
        arg |-> ListActive(store, GroupOr(groupId)), userId |-> "",
        items |-> <<>>, seen |-> Len(journal)])
  /\ UNCHANGED <<server, syncJob, now, storeVars, tmplVars, usersVars, netVars, botOut, journal, last>>

\* The rest of the init handler: socket.emit('init', { checklists }) with the
\* rows the select returned.
initReply(n) ==
  /\ n \in 1..Len(pending)
  /\ pending[n].op = "init"
  /\ Tick
  /\ inbox' = IF pending[n].by \in connected
              THEN SocketEmit(inbox, pending[n].by,
                     [type |-> "init", checklists |-> pending[n].arg])
              ELSE inbox
  /\ Handled(pending[n].by, "init", 0, pending[n].itemId, "ok")
  /\ pending' = SubSeq(pending, 1, n - 1) \o SubSeq(pending, n + 1, Len(pending))
  /\ UNCHANGED <<server, syncJob, storeVars, tmplVars, usersVars, connected, botOut, journal>>

\* socket.on('createChecklist') up to its await: the insert has been carried out
\* at the database, and the handler goes on when the row reaches it.
createInsert(s, name, userId, groupId) ==
  /\ s \in connected
  /\ nextId <= MaxChecklists
  /\ Len(pending) < MaxPending
  /\ LET row == [id |-> nextId, name |-> name, created_by |-> userId,
                 group_id |-> GroupOr(groupId),
                 items |-> NewItems(BANK_TEMPLATE, userId, now),
                 is_archived |-> FALSE, created_at |-> now]
     IN /\ store' = InsertRow(store, row)
        /\ nextId' = nextId + 1
        /\ pending' = Append(pending,
             [by |-> s, op |-> "create", cl |-> row.id, itemId |-> "", arg |-> row,
              userId |-> userId, items |-> row.items, seen |-> Len(journal)])
  /\ UNCHANGED <<server, syncJob, now, tmplVars, usersVars, netVars, botOut, journal, last>>

\* The rest of the createChecklist handler: io.emit('checklistCreated', row).
createEmit(n) ==
  /\ n \in 1..Len(pending)
  /\ pending[n].op = "create"
  /\ Tick
  /\ inbox' = IoEmit(inbox, [type |-> "checklistCreated", checklist |-> pending[n].arg])
  /\ journal' = Logged(pending[n].by, "create", pending[n].cl, 0, pending[n].arg.name,
                       store, inbox')
  /\ Handled(pending[n].by, "create", pending[n].cl, "", "ok")
  /\ pending' = SubSeq(pending, 1, n - 1) \o SubSeq(pending, n + 1, Len(pending))
  /\ UNCHANGED <<server, syncJob, storeVars, tmplVars, usersVars, connected, botOut>>

\* A session asks for the snapshot of its group while checklists of the group
\* are created and deleted: the answers of the database reach the server in any
\* order.
NextInitRace ==
  /\ now <= MaxInitRaceClock
  /\ \/ Connect("s1")
     \/ createInsert("s1", Q1, "u1", DefaultGroup)
     \/ \E n \in 1..MaxPending : createEmit(n)
     \/ initSelect("s1", DefaultGroup)
     \/ \E n \in 1..MaxPending : initReply(n)
     \/ \E c \in ChecklistIds : deleteChecklist("s1", c, FALSE)
  /\ UNCHANGED twin

SpecInitRace == Init /\ [][NextInitRace]_vars

\* The checklists session s holds: its cache after every event it was sent.
Cache(s) == CacheOf(inbox[s])

\* Checklist cl is in the cache of session s.
Holds(s, cl) == \E i \in 1..Len(Cache(s)) : Cache(s)[i].id = cl

\* Checklist cl was announced to the sessions by its createChecklist, and a
\* deleteChecklist of it has completed after that.
DeletedAfterCreated(cl) ==
  \E j, k \in Entries :
    /\ j < k
    /\ journal[j].op = "create" /\ journal[j].cl = cl
    /\ journal[k].op = "delete" /\ journal[k].cl = cl

\* C37 as stated: when an init request and a deleteChecklist are handled at the
\* same time, then once no request is waiting any more the cache of the session
\* that asked holds no checklist that was deleted.
C37_CacheDropsDeleted ==
  pending = <<>> =>
    \A s \in Sessions, cl \in ChecklistIds :
      (Joined(s) /\ DeletedAfterCreated(cl)) => ~Holds(s, cl)

\* C38 as stated: no cache holds two checklists with the same id, also when a
\* createChecklist completes while an init of the session is waiting.
C38_CacheIdsDistinct == \A s \in Sessions : DistinctIds(Cache(s))

\* ------------------------------------------------- saves that fail
\* How the upsert of saveBankTemplate can end: it succeeds, it resolves with an
\* error, or it throws.
SaveResults == {"ok", "error", "throw"}

\* An administrator edits the template while the settings table answers or fails.
NextSave ==
  /\ now <= MaxSaveClock
  /\ \/ \E n \in BankNames, r \in SaveResults : addbank("u1", n, r)
     \/ \E b \in BankIds, r \in SaveResults : delbank("u1", b, r)
     \/ \E b \in BankIds, r \in SaveResults : renamebank("u1", b, Zen, r)
  /\ UNCHANGED twin

SpecSave == Init /\ [][NextSave]_vars

\* C39 as stated: when an /addbank, a /delbank or a /renamebank that changed the
\* registry has completed, the settings table holds the registry as it is in
\* memory, and a command answered with "Error saving" has left the registry as
\* it was.
C39_SavedEqualsRegistry ==
  [][(Served /\ last'.op \in {"addbank", "delbank", "renamebank"} /\ last'.outcome = "ok") =>
       /\ settings'.present
       /\ settings'.value = BANK_TEMPLATE'
       /\ (botOut'[Len(botOut')] = "Error saving" => BANK_TEMPLATE' = BANK_TEMPLATE)]_vars

\* The statuses an item or an entry may be read with: those of the cycle, and
\* values that are not in it.
AnyStatus == Range(statusCycle) \cup {"", "DONE", "undefined"}

\* Every item of every checklist and every entry of the registry has a status
\* of the cycle.
StatusesInCycle(st, template) ==
  /\ \A cl \in DOMAIN st :
       \A k \in 1..Len(st[cl].items) : st[cl].items[k].status \in Range(statusCycle)
  /\ \A i \in 1..Len(template) : template[i].status \in Range(statusCycle)

\* C40: in every reachable state every item of the table and every entry of the
\* registry has one of the four statuses of the cycle, whatever was created,
\* advanced, edited, overridden, synced, added or renamed, and an advance takes
\* any status to a status of the cycle.
C40_StatusesInCycle ==
  /\ StatusesInCycle(store, BANK_TEMPLATE)
  /\ \A k \in Entries : StatusesInCycle(journal[k].post, journal[k].tmpl)
  /\ \A s \in AnyStatus : NextStatus(s) \in Range(statusCycle)

\* C40 witness: an item that was at the last status of the cycle has been
\* advanced.
C40_Witness ==
  \E k \in Entries :
    /\ journal[k].op = "advance"
    /\ ItemAt(journal[k].pre, journal[k].cl, journal[k].it).status = "DECLINED"

====
